---- MODULE Spec2Model ----
(***************************************************************************)
(* Model of github-stargazers.js: the HTTP request executor (makeRequest)  *)
(* with its rate-limit / SAML handling, the pagination driver              *)
(* (getStargazers), the filter/sort stage, the enrichment batcher          *)
(* (enrichStargazersData) and the main() pipeline that chains them.        *)
(*                                                                         *)
(* One TLA+ step is one turn of the Node.js event loop: an HTTP response   *)
(* handler, a request error handler or a timer callback, together with     *)
(* every promise continuation (microtask) it triggers.                     *)
(*                                                                         *)
(* Time is in milliseconds (clock); starred_at instants and the            *)
(* x-ratelimit-reset header are in epoch seconds.                          *)
(***************************************************************************)
EXTENDS Integers, Sequences, FiniteSets, TLC

(***************************************************************************)
(* Bounds of the model                                                     *)
(***************************************************************************)
\* stargazers the repository has when the run starts
MaxStars == 4
\* items the server puts on one page (GitHub: up to per_page)
PageLen == 2
\* largest --limit value explored
MaxLimit == 3
\* quota-exhausted 403 answers the server gives during one run
MaxRateLimited == 1
\* failing answers (transport error, bad JSON, 403, 500) during one run
MaxFaults == 2
\* un-star / re-star events happening on the server during one run
MaxMutations == 1
\* size of an enrichment batch; the script uses 50 (line 364), the model
\* explores every settling order of a batch and therefore uses a small one
batchSize == 2

\* records handed to the filter/sort stage when it is explored on its own
MaxRecords == 3
\* options (each with its value, if any) on one command line
MaxArgs == 3
\* lines of the participants file of the raffle
MaxParticipants == 3
\* raffle runs against the same raffle-winners.json
MaxRuns == 3
\* records handed to generateStargazersReport when it is explored on its own
MaxReported == 4
\* length of the report's recent / oldest lists; the script uses 10 (lines
\* 266, 272), the model a length that MaxReported records exceed
ReportListSize == 2

(***************************************************************************)
(* Program constants                                                       *)
(***************************************************************************)
per_page == 100
RateLimitBuffer == 60
PageDelay == 1000
BatchDelay == 2000
\* time the server takes to answer one request (ms); not a multiple of
\* 1000, so that Math.ceil in the wait computation matters
Latency == 300
\* clock value when main() starts
StartClock == 100000

\* limit = null (no limit); `limit && ...` treats null like 0
NoLimit == 0

Min(a, b) == IF a < b THEN a ELSE b
Max(a, b) == IF a > b THEN a ELSE b

\* Math.ceil(n / d) for d > 0 (TLA+ \div rounds towards minus infinity)
Ceil(n, d) == -((-n) \div d)

(***************************************************************************)
(* Records.  A JavaScript object is a function from field names to values; *)
(* {...a, ...b} copies a and then b, so the fields of b win.               *)
(***************************************************************************)
Spread(a, b) == b @@ a

AllLogins == <<"u1", "u2", "u3", "u4", "u5", "u6">>

\* the item the stargazers endpoint returns for the n-th user with star time t
Item(n, t) == [user |-> [login |-> AllLogins[n], id |-> n], starred_at |-> t]

\* the profile object GET /users/<login> returns
Profile(login) ==
    LET n == CHOOSE k \in 1..Len(AllLogins) : AllLogins[k] = login
    IN  [login |-> login, id |-> n, name |-> <<"name of", login>>]

\* stargazersData.map(item => ({...item.user, starred_at: item.starred_at}))
Flatten(item) == Spread(item.user, [starred_at |-> item.starred_at])

FlattenAll(stargazersData) ==
    [k \in 1..Len(stargazersData) |-> Flatten(stargazersData[k])]

(***************************************************************************)
(* The server.  stars is the repository's stargazer collection in          *)
(* ascending star-time order, which is the order the endpoint lists it in. *)
(***************************************************************************)
PageSlice(coll, p) ==
    SubSeq(coll, (p - 1) * PageLen + 1, Min(p * PageLen, Len(coll)))

PageUrl(p) == [kind |-> "page", page |-> p, per_page |-> per_page, login |-> ""]
UserUrl(login) == [kind |-> "user", page |-> 0, per_page |-> 0, login |-> login]

\* what the endpoint behind url answers with when it answers normally
Payload(url, coll) ==
    IF url.kind = "page" THEN PageSlice(coll, url.page) ELSE Profile(url.login)

Remove(coll, k) == [j \in 1..(Len(coll) - 1) |-> IF j < k THEN coll[j] ELSE coll[j + 1]]

SAMLMessage == "Resource protected by organization SAML enforcement."
OtherMessage == "Forbidden"

\* message.includes('SAML enforcement')
IncludesSAML(message) == message = SAMLMessage

\* a header that may be absent
Header(v) == [defined |-> TRUE, value |-> v]
undefined == [defined |-> FALSE, value |-> 0]

\* offsets (seconds) of the advertised reset instant from the server's "now"
ResetDeltas == {-90, 5}

ResetHeaders(now) == {undefined} \cup {Header((now \div 1000) + d) : d \in ResetDeltas}

\* response bodies: raw is the text, valid says whether JSON.parse accepts
\* it and json is what it parses to
JsonBody(v) == [raw |-> "json", valid |-> TRUE, json |-> v]
ErrorBody(m) == [raw |-> m, valid |-> TRUE, json |-> [message |-> m]]
GarbageBody == [raw |-> "<html>", valid |-> FALSE, json |-> [message |-> ""]]

Response(status, remaining, reset, body) ==
    [statusCode |-> status,
     headers |-> [remaining |-> remaining, reset |-> reset],
     body |-> body]

OkResponses(url, coll, now) ==
    {Response(200, "59", Header((now \div 1000) + 5), JsonBody(Payload(url, coll)))}

BadJsonResponses(now) ==
    {Response(200, "59", Header((now \div 1000) + 5), GarbageBody)}

QuotaResponses(now) ==
    {Response(403, "0", r, b) :
        r \in ResetHeaders(now),
        b \in {ErrorBody(OtherMessage), ErrorBody(SAMLMessage)}}

ForbiddenResponses(now) ==
    {Response(403, "59", Header((now \div 1000) + 5), b) :
        b \in {ErrorBody(OtherMessage), ErrorBody(SAMLMessage), GarbageBody}}

OtherStatusResponses(now) ==
    {Response(500, "59", Header((now \div 1000) + 5), ErrorBody(OtherMessage))}

(***************************************************************************)
(* makeRequest                                                             *)
(***************************************************************************)
Err(type, status, detail) == [type |-> type, statusCode |-> status, detail |-> detail]
NoError == Err("none", 0, "")
\* the error object the 'error' event of the request carries
TransportError == Err("transport", 0, "ECONNRESET")

\* what the res.on('end') handler decides for a response:
\* resolve, reject with an error, or wait for the quota reset and retry
HandleEnd_NoSamlCheck(res) ==
    IF res.statusCode >= 200 /\ res.statusCode < 300
    THEN IF res.body.valid
         THEN [kind |-> "resolve", error |-> NoError]
         ELSE [kind |-> "reject", error |-> Err("parse", 0, res.body.raw)]
    ELSE IF res.statusCode = 403 /\ res.headers.remaining = "0"
    THEN [kind |-> "retry", error |-> NoError]
    ELSE [kind |-> "reject", error |-> Err("http", res.statusCode, res.body.raw)]

HandleEnd(res) ==
    IF res.statusCode >= 200 /\ res.statusCode < 300
    THEN IF res.body.valid
         THEN [kind |-> "resolve", error |-> NoError]
         ELSE [kind |-> "reject", error |-> Err("parse", 0, res.body.raw)]
    ELSE IF res.statusCode = 403
    THEN IF res.headers.remaining = "0"
         THEN [kind |-> "retry", error |-> NoError]
         ELSE IF res.body.valid /\ IncludesSAML(res.body.json.message)
              THEN [kind |-> "reject", error |-> Err("saml", 0, res.body.json.message)]
              ELSE [kind |-> "reject", error |-> Err("http", res.statusCode, res.body.raw)]
    ELSE [kind |-> "reject", error |-> Err("http", res.statusCode, res.body.raw)]

\* Math.ceil((resetTime - new Date()) / 1000) + 60, resetTime = reset * 1000
waitTime_NoBuffer(rateLimitReset, now) == Ceil(rateLimitReset * 1000 - now, 1000)

waitTime(rateLimitReset, now) ==
    Ceil(rateLimitReset * 1000 - now, 1000) + RateLimitBuffer

\* setTimeout(cb, ms): Node runs a timer whose delay is below 1 (or NaN) after 1 ms
TimerDelay(ms) == IF ms >= 1 THEN ms ELSE 1

\* delay of the retry timer; parseInt(undefined) is NaN and so is the delay
RetryDelay(rateLimitReset, now) ==
    IF rateLimitReset.defined
    THEN TimerDelay(waitTime(rateLimitReset.value, now) * 1000)
    ELSE 1

\* what is remembered of a response: status, headers, the body as received
\* (data), and whether it is JSON whose message names SAML enforcement
Seen(res) ==
    [statusCode |-> res.statusCode,
     headers |-> res.headers,
     data |-> res.body.raw,
     saml |-> res.statusCode = 403 /\ res.body.valid
                 /\ IncludesSAML(res.body.json.message)]

NoResponse ==
    [statusCode |-> 0, headers |-> [remaining |-> "", reset |-> undefined],
     data |-> "", saml |-> FALSE]

\* state of one makeRequest call (the promise and its current attempt):
\* st is idle, inflight, waiting (for the quota reset), resolved or rejected;
\* res is the last response its handler saw, since the time the last wait
\* began, fireAt the time the retry timer is due, error the rejection value and
\* n the value of processedCount logged when a profile request settled
IdleReq ==
    [st |-> "idle", url |-> PageUrl(0), attempt |-> 0, fireAt |-> 0,
     since |-> 0, res |-> NoResponse, error |-> NoError, n |-> 0]

Issue(url) ==
    [st |-> "inflight", url |-> url, attempt |-> 1, fireAt |-> 0,
     since |-> 0, res |-> NoResponse, error |-> NoError, n |-> 0]

Waiting_NoTimer(req, res, now) ==
    [req EXCEPT !.st = "stalled", !.since = now, !.res = Seen(res)]

Waiting(req, res, now) ==
    [req EXCEPT !.st = "waiting",
                !.fireAt = now + RetryDelay(res.headers.reset, now),
                !.since = now,
                !.res = Seen(res)]

Reissue(req) == [req EXCEPT !.st = "inflight", !.attempt = @ + 1]

Resolve(req, res, now) ==
    [req EXCEPT !.st = "resolved", !.res = Seen(res)]

Reject(req, res, now, error) ==
    [req EXCEPT !.st = "rejected", !.res = Seen(res), !.error = error]

\* req.on('error'): rejected before any response was received
Fail(req, now, error) ==
    [req EXCEPT !.st = "rejected", !.error = error]

\* one entry of the log of requests put on the wire
LogEntry(url, attempt) == [url |-> url, options |-> {}, attempt |-> attempt]

(***************************************************************************)
(* filterAndSortStargazers: the ordering part.  Array.prototype.sort is    *)
(* stable; a comparator result of 0 keeps the input order.                 *)
(***************************************************************************)
\* the comparator: dateA - dateB for asc, dateB - dateA otherwise
Compare(a, b, sort) ==
    IF sort = "asc" THEN a.starred_at - b.starred_at
                    ELSE b.starred_at - a.starred_at

\* position at which x goes into the sorted sequence s: after every
\* element that does not compare greater than x
InsertSorted_BeforeEqual(s, x, sort) ==
    LET n == Cardinality({k \in 1..Len(s) : Compare(s[k], x, sort) < 0})
    IN  SubSeq(s, 1, n) \o <<x>> \o SubSeq(s, n + 1, Len(s))

InsertSorted(s, x, sort) ==
    LET n == Cardinality({k \in 1..Len(s) : Compare(s[k], x, sort) <= 0})
    IN  SubSeq(s, 1, n) \o <<x>> \o SubSeq(s, n + 1, Len(s))

RECURSIVE SortBy(_, _)
SortBy(s, sort) ==
    IF Len(s) = 0 THEN <<>>
    ELSE InsertSorted(SortBy(SubSeq(s, 1, Len(s) - 1), sort), s[Len(s)], sort)

(***************************************************************************)
(* Strings.  A string of the command line is a TLA+ string; Chars gives    *)
(* its characters, on which the regular expressions, parseInt and the      *)
(* Date parser work.                                                       *)
(***************************************************************************)
\* null, as the value of an option that was not given
null == "<null>"

Chars(s) ==
    CASE s = "--help"       -> <<"-", "-", "h", "e", "l", "p">>
      [] s = "--sort"       -> <<"-", "-", "s", "o", "r", "t">>
      [] s = "-s"           -> <<"-", "s">>
      [] s = "--date"       -> <<"-", "-", "d", "a", "t", "e">>
      [] s = "--from"       -> <<"-", "-", "f", "r", "o", "m">>
      [] s = "--to"         -> <<"-", "-", "t", "o">>
      [] s = "--timezone"   -> <<"-", "-", "t", "i", "m", "e", "z", "o", "n", "e">>
      [] s = "--limit"      -> <<"-", "-", "l", "i", "m", "i", "t">>
      [] s = "--verbose"    -> <<"-", "-", "v", "e", "r", "b", "o", "s", "e">>
      [] s = "asc"          -> <<"a", "s", "c">>
      [] s = "desc"         -> <<"d", "e", "s", "c">>
      [] s = "up"           -> <<"u", "p">>
      [] s = "2025-02-26"   -> <<"2", "0", "2", "5", "-", "0", "2", "-", "2", "6">>
      [] s = "26/02/2025"   -> <<"2", "6", "/", "0", "2", "/", "2", "0", "2", "5">>
      [] s = "00:00"        -> <<"0", "0", ":", "0", "0">>
      [] s = "08:00"        -> <<"0", "8", ":", "0", "0">>
      [] s = "9:00"         -> <<"9", ":", "0", "0">>
      [] s = "17:00"        -> <<"1", "7", ":", "0", "0">>
      [] s = "09:30:00"     -> <<"0", "9", ":", "3", "0", ":", "0", "0">>
      [] s = "18:30:15"     -> <<"1", "8", ":", "3", "0", ":", "1", "5">>
      [] s = "25:00"        -> <<"2", "5", ":", "0", "0">>
      [] s = "UTC"          -> <<"U", "T", "C">>
      [] s = "Asia/Tokyo"   -> <<"A", "s", "i", "a", "/", "T", "o", "k", "y", "o">>
      [] s = "America/New_York" ->
             <<"A", "m", "e", "r", "i", "c", "a", "/", "N", "e", "w", "_",
               "Y", "o", "r", "k">>
      [] s = "Invalid/Zone" ->
             <<"I", "n", "v", "a", "l", "i", "d", "/", "Z", "o", "n", "e">>
      [] s = "2"            -> <<"2">>
      [] s = "0"            -> <<"0">>
      [] s = "-1"           -> <<"-", "1">>
      [] s = "abc"          -> <<"a", "b", "c">>
      [] s = "-l"           -> <<"-", "l">>
      [] s = "extra"        -> <<"e", "x", "t", "r", "a">>
      [] s = "YES"          -> <<"Y", "E", "S">>
      [] s = "y"            -> <<"y">>
      [] s = "Y"            -> <<"Y">>
      [] s = "yes"          -> <<"y", "e", "s">>
      [] s = "n"            -> <<"n">>
      [] s = ""             -> <<>>

Digits == <<"0", "1", "2", "3", "4", "5", "6", "7", "8", "9">>

IsDigit(c) == \E k \in 1..10 : Digits[k] = c

DigitValue(c) == (CHOOSE k \in 1..10 : Digits[k] = c) - 1

\* the value of a sequence of digits, base 10
RECURSIVE DigitsValue(_)
DigitsValue(cs) ==
    IF Len(cs) = 0 THEN 0
    ELSE 10 * DigitsValue(SubSeq(cs, 1, Len(cs) - 1)) + DigitValue(cs[Len(cs)])

\* the longest prefix of cs made of digits
RECURSIVE DigitPrefix(_)
DigitPrefix(cs) ==
    IF Len(cs) = 0 \/ ~IsDigit(cs[1]) THEN <<>>
    ELSE <<cs[1]>> \o DigitPrefix(Tail(cs))

\* parseInt(s, 10): an optional sign, then the leading digits; NaN when
\* there is none
NaN == [nan |-> TRUE, value |-> 0]

parseInt(cs) ==
    LET neg  == Len(cs) > 0 /\ cs[1] = "-"
        rest == IF Len(cs) > 0 /\ cs[1] \in {"-", "+"} THEN Tail(cs) ELSE cs
        ds   == DigitPrefix(rest)
    IN  IF Len(ds) = 0 THEN NaN
        ELSE [nan |-> FALSE,
              value |-> IF neg THEN -DigitsValue(ds) ELSE DigitsValue(ds)]

\* timeString.split(':')
RECURSIVE Split(_, _)
Split(cs, sep) ==
    IF \A k \in 1..Len(cs) : cs[k] # sep THEN <<cs>>
    ELSE LET n == CHOOSE k \in 1..Len(cs) :
                      cs[k] = sep /\ \A j \in 1..(k - 1) : cs[j] # sep
         IN  <<SubSeq(cs, 1, n - 1)>> \o Split(SubSeq(cs, n + 1, Len(cs)), sep)

\* hours * 3600 + minutes * 60 + seconds, seconds 0 without a third part
parseTime(timeString) ==
    LET parts   == Split(Chars(timeString), ":")
        hours   == parseInt(parts[1]).value
        minutes == parseInt(parts[2]).value
        seconds == IF Len(parts) >= 3 /\ Len(parts[3]) > 0
                   THEN parseInt(parts[3]).value ELSE 0
    IN  hours * 3600 + minutes * 60 + seconds

(***************************************************************************)
(* Dates and time zones.  Instants are epoch seconds.  A zone is given by  *)
(* its name and stands at a fixed offset from UTC (its offset in February  *)
(* 2025); daylight-saving transitions are outside the model.               *)
(***************************************************************************)
Day == 86400

\* the zones the runtime supports, with their offset east of UTC in seconds
ZoneOffset(zone) ==
    CASE zone = "UTC"              -> 0
      [] zone = "Asia/Tokyo"       -> 9 * 3600
      [] zone = "America/New_York" -> -(5 * 3600)

SupportedZones == {"UTC", "Asia/Tokyo", "America/New_York"}

\* new Intl.DateTimeFormat('en-US', {timeZone: timezone, ...}) throws a
\* RangeError for a zone the runtime does not know
validateTimezone(timezone) == timezone \in SupportedZones

\* days from 1970-01-01 to the civil date y-m-d (proleptic Gregorian)
DaysFromCivil(y, m, d) ==
    LET yy  == IF m <= 2 THEN y - 1 ELSE y
        era == yy \div 400
        yoe == yy - era * 400
        mp  == IF m > 2 THEN m - 3 ELSE m + 9
        doy == (153 * mp + 2) \div 5 + d - 1
        doe == yoe * 365 + yoe \div 4 - yoe \div 100 + doy
    IN  era * 146097 + doe - 719468

\* new Date("YYYY-MM-DD"): a date-only ISO string is midnight UTC
DateOf(date) ==
    LET parts == Split(Chars(date), "-")
    IN  DaysFromCivil(DigitsValue(parts[1]), DigitsValue(parts[2]),
                      DigitsValue(parts[3])) * Day

\* Date.prototype.setHours(0, 0, 0, 0): midnight of the local day of t
setHours0(t, zone) ==
    ((t + ZoneOffset(zone)) \div Day) * Day - ZoneOffset(zone)

\* nextDate.setDate(nextDate.getDate() + 1)
NextDate(t) == t + Day

\* seconds since midnight of instant t on the wall clock of zone
WallSeconds(t, zone) == (t + ZoneOffset(zone)) % Day

\* date.getHours() * 3600 + date.getMinutes() * 60 + date.getSeconds()
LocalTime(t, zone) ==
    LET w == WallSeconds(t, zone)
    IN  (w \div 3600) * 3600 + ((w % 3600) \div 60) * 60 + (w % 60)

\* the 'hour' part Intl.DateTimeFormat('en-US', {hour12: false}) prints:
\* 0..23 under hour cycle h23; 1..24 under h24, where midnight is 24.
\* Which cycle hour12: false selects for en-US depends on the runtime's
\* ECMA-402 edition.
HourCycles == {"h23", "h24"}

FormatHour(h, cycle) == IF cycle = "h24" /\ h = 0 THEN 24 ELSE h

\* getTimeInTimezone(date, timezone).totalSeconds
getTimeInTimezone_UnknownAsUTC(t, timezone, zone, cycle) ==
    IF timezone # null
    THEN LET w == IF validateTimezone(timezone) THEN WallSeconds(t, timezone)
                  ELSE WallSeconds(t, "UTC")
             hours   == FormatHour(w \div 3600, cycle)
             minutes == (w % 3600) \div 60
             seconds == w % 60
         IN  hours * 3600 + minutes * 60 + seconds
    ELSE LocalTime(t, zone)

getTimeInTimezone(t, timezone, zone, cycle) ==
    IF timezone # null
    THEN IF ~validateTimezone(timezone)
         THEN LocalTime(t, zone)
         ELSE LET w == WallSeconds(t, timezone)
                  hours   == FormatHour(w \div 3600, cycle)
                  minutes == (w % 3600) \div 60
                  seconds == w % 60
              IN  hours * 3600 + minutes * 60 + seconds
    ELSE LocalTime(t, zone)

\* the first filter: starredDate >= targetDate && starredDate < nextDate
OnDate(t, date, zone) ==
    LET targetDate == setHours0(DateOf(date), zone)
    IN  targetDate <= t /\ t < NextDate(targetDate)

\* the second filter: not before fromTime, not after toTime
InWindow_Wraps(t, opts, zone, cycle) ==
    LET starredTime == getTimeInTimezone(t, opts.timezone, zone, cycle)
        before == opts.from # null /\ starredTime < parseTime(opts.from)
        after == opts.to # null /\ starredTime > parseTime(opts.to)
    IN  IF opts.from # null /\ opts.to # null
               /\ parseTime(opts.from) > parseTime(opts.to)
        THEN ~(before /\ after)
        ELSE ~before /\ ~after

InWindow(t, opts, zone, cycle) ==
    LET starredTime == getTimeInTimezone(t, opts.timezone, zone, cycle)
    IN  /\ ~(opts.from # null /\ starredTime < parseTime(opts.from))
        /\ ~(opts.to # null /\ starredTime > parseTime(opts.to))

\* the records the two Array.prototype.filter calls keep, in input order
FilterStargazers(stargazers, opts, zone, cycle) ==
    IF opts.date = null THEN stargazers
    ELSE LET KeepDate(s) == OnDate(s.starred_at, opts.date, zone)
             KeepTime(s) == InWindow(s.starred_at, opts, zone, cycle)
             onDate == SelectSeq(stargazers, KeepDate)
         IN  IF opts.from # null \/ opts.to # null
             THEN SelectSeq(onDate, KeepTime)
             ELSE onDate

\* filterAndSortStargazers(stargazers, options) on a machine whose local
\* zone is zone and whose runtime uses the hour cycle cycle
filterAndSortStargazers(stargazers, opts, zone, cycle) ==
    SortBy(FilterStargazers(stargazers, opts, zone, cycle), opts.sort)

(***************************************************************************)
(* State                                                                   *)
(***************************************************************************)
VARIABLES
    options,            \* the parsed command line options
    args,               \* process.argv.slice(2)
    localZone,          \* the machine's local time zone
    hourCycle,          \* hour cycle the runtime gives hour12: false
    report,             \* what generateStargazersReport returned
    stdout,             \* what the argument parser logged, in order
    answer,             \* what the user typed at the timezone prompt
    winnersFile,        \* raffle-winner.js: data.winners of raffle-winners.json
    winner,             \* raffle-winner.js: winner picked by the latest run
    runs,               \* raffle-winner.js: runs so far
    callOptions,        \* makeRequest: the options argument of a call
    githubToken,        \* makeRequest: process.env.GITHUB_TOKEN
    requestOptions,     \* makeRequest: the options handed to https.request
    pc,                 \* where main() is: start, fetching, enriching, done, exit
    exitCode,           \* status passed to process.exit, -1 while running
    files,              \* output files written so far
    stars,              \* server: the repository's stargazer items
    mutations,          \* server: un-star / re-star events so far
    rateLimited,        \* server: quota-exhausted answers given so far
    faults,             \* server: failing answers given so far
    clock,              \* current time, ms
    netlog,             \* every request put on the wire, in order
    page,               \* getStargazers: page
    allStargazers,      \* getStargazers: allStargazers
    gs,                 \* getStargazers: idle, await, sleep, returned, thrown
    gsTimer,            \* getStargazers: when the inter-page delay ends
    pageReq,            \* the makeRequest call of getStargazers
    thrown,             \* the error getStargazers threw
    received,           \* the page bodies makeRequest resolved with, in order
    filtered,           \* main: filteredAndSortedStargazers
    i,                  \* enrichStargazersData: loop index i
    enrichedStargazers, \* enrichStargazersData: enrichedStargazers
    processedCount,     \* enrichStargazersData: processedCount
    es,                 \* enrichStargazersData: idle, batch, sleep, returned
    esTimer,            \* enrichStargazersData: when the inter-batch delay ends
    userReqs,           \* the makeRequest calls of the current batch
    batchResults,       \* values of the promises of the current batch
    fetchOutcome        \* per enriched record: did its profile fetch succeed

gsVars == <<page, allStargazers, gs, gsTimer, pageReq, thrown, received>>
esVars == <<filtered, i, enrichedStargazers, processedCount, es, esTimer,
            userReqs, batchResults, fetchOutcome>>
mainVars == <<pc, exitCode, files>>
serverVars == <<stars, mutations, rateLimited, faults>>
raffleVars == <<winnersFile, winner, runs>>
callVars == <<callOptions, githubToken, requestOptions>>
envVars == <<options, args, localZone, hourCycle, report, stdout, answer, raffleVars,
             callVars>>
vars == <<envVars, mainVars, serverVars, clock, netlog, gsVars, esVars>>

OutputFiles ==
    {"stargazers-detailed.json", "stargazers-report.json",
     "stargazers-summary.json", "participants.txt"}

\* value of a promise of the batch that has not settled yet
Pending == [pending |-> TRUE]

InitialStars(n) == [k \in 1..n |-> Item(k, 10 * k)]

\* the options object before the arguments are read
DefaultOptions ==
    [sort |-> "desc", date |-> null, from |-> null, to |-> null,
     timezone |-> null, limit |-> NoLimit, help |-> FALSE]

NoReport == <<>>

\* raffle-winner.js has not run and there is no raffle-winners.json
NoRaffle ==
    /\ winnersFile = <<>>
    /\ winner = null
    /\ runs = 0

\* the request options of makeRequest are not observed
NoCall ==
    /\ callOptions = <<>>
    /\ githubToken = null
    /\ requestOptions = <<>>

\* main() is about to run with options that set at most --sort and --limit
Init ==
    /\ options \in {[DefaultOptions EXCEPT !.limit = l, !.sort = s] :
                        l \in {NoLimit} \cup 1..MaxLimit, s \in {"asc", "desc"}}
    /\ args = <<>>
    /\ localZone = "UTC"
    /\ hourCycle = "h23"
    /\ report = NoReport
    /\ stdout = <<>>
    /\ answer = null
    /\ NoRaffle
    /\ NoCall
    /\ pc = "start"
    /\ exitCode = -1
    /\ files = {}
    /\ stars \in {InitialStars(n) : n \in 0..MaxStars}
    /\ mutations = 0
    /\ rateLimited = 0
    /\ faults = 0
    /\ clock = StartClock
    /\ netlog = <<>>
    /\ page = 1
    /\ allStargazers = <<>>
    /\ gs = "idle"
    /\ gsTimer = 0
    /\ pageReq = IdleReq
    /\ thrown = NoError
    /\ received = <<>>
    /\ filtered = <<>>
    /\ i = 0
    /\ enrichedStargazers = <<>>
    /\ processedCount = 0
    /\ es = "idle"
    /\ esTimer = 0
    /\ userReqs = <<>>
    /\ batchResults = <<>>
    /\ fetchOutcome = <<>>

(***************************************************************************)
(* enrichStargazersData and the end of main()                              *)
(***************************************************************************)
\* what getDetailedUserInfo returns: response.data, or null from its catch;
\* spreading null adds no field
nullInfo == <<>>

getDetailedUserInfo_ReturnsError(ok, data) ==
    IF ok THEN data ELSE [message |-> "Could not fetch detailed info"]

getDetailedUserInfo(ok, data) == IF ok THEN data ELSE nullInfo

\* stargazers.slice(i, i + batchSize)
BatchOf(list, i0) == SubSeq(list, i0 + 1, Min(i0 + batchSize, Len(list)))

\* Promise.all keeps each value at the index of its promise
StoreResult_SettleOrder(results, k, nSettled, result) ==
    [results EXCEPT ![nSettled + 1] = result]

StoreResult(results, k, nSettled, result) == [results EXCEPT ![k] = result]

IsSettled(req) == req.st \in {"resolved", "rejected"}

\* await Promise.all(promises) continues once every promise has settled
BatchDone_Race(reqs) == \E k \in 1..Len(reqs) : IsSettled(reqs[k])

BatchDone(reqs) == \A k \in 1..Len(reqs) : IsSettled(reqs[k])

\* batch.map(...): every request of the batch is issued, in index order
StartBatch(list, i0) ==
    LET batch == BatchOf(list, i0)
    IN  /\ userReqs' = [k \in 1..Len(batch) |-> Issue(UserUrl(batch[k].login))]
        /\ batchResults' = [k \in 1..Len(batch) |-> Pending]
        /\ netlog' = netlog \o
               [k \in 1..Len(batch) |-> LogEntry(UserUrl(batch[k].login), 1)]

\* main() after enrichStargazersData returned: report, files, summary
MainFinish ==
    /\ pc' = "done"
    /\ exitCode' = 0
    /\ files' = OutputFiles

\* main(): const filteredAndSortedStargazers =
\*             filterAndSortStargazers(stargazers, options)
filteredAndSortedStargazers_Unfiltered(stargazers) == SortBy(stargazers, options.sort)

filteredAndSortedStargazers(stargazers) ==
    filterAndSortStargazers(stargazers, options, localZone, hourCycle)

\* main() after getStargazers returned: filter, sort, start the enrichment
MainAfterFetch(result) ==
    LET list == filteredAndSortedStargazers(result)
    IN  /\ filtered' = list
        /\ i' = 0
        /\ enrichedStargazers' = <<>>
        /\ processedCount' = 0
        /\ fetchOutcome' = <<>>
        /\ esTimer' = esTimer
        /\ IF Len(list) > 0
           THEN /\ StartBatch(list, 0)
                /\ es' = "batch"
                /\ pc' = "enriching"
                /\ UNCHANGED <<exitCode, files>>
           ELSE /\ es' = "returned"
                /\ MainFinish
                /\ UNCHANGED <<userReqs, batchResults, netlog>>

\* { ...stargazer, ...detailedInfo }: a new object, stargazer is only read
EnrichedRecord_ProfileOnly(stargazer, detailedInfo) ==
    IF DOMAIN detailedInfo = {} THEN stargazer ELSE detailedInfo

EnrichedRecord(stargazer, detailedInfo) == Spread(stargazer, detailedInfo)

\* the k-th promise of the batch settles: the continuation of the map
\* callback, then of Promise.all, of enrichStargazersData and of main()
UserSettled(k, ok, data, settled) ==
    LET stargazer == filtered[i + k]
        detailedInfo == getDetailedUserInfo(ok, data)
        result == EnrichedRecord(stargazer, detailedInfo)
        nSettled == Cardinality({j \in 1..Len(userReqs) : IsSettled(userReqs[j])})
        reqs2 == [userReqs EXCEPT ![k] = [settled EXCEPT !.n = processedCount + 1]]
        results2 == StoreResult(batchResults, k, nSettled, result)
    IN  /\ userReqs' = reqs2
        /\ batchResults' = results2
        /\ processedCount' = processedCount + 1
        /\ IF BatchDone(reqs2)
           THEN /\ enrichedStargazers' = enrichedStargazers \o results2
                /\ fetchOutcome' = fetchOutcome \o
                       [j \in 1..Len(reqs2) |-> reqs2[j].st = "resolved"]
                /\ IF i + batchSize < Len(filtered)
                   THEN /\ es' = "sleep"
                        /\ esTimer' = clock' + BatchDelay
                        /\ UNCHANGED mainVars
                   ELSE /\ es' = "returned"
                        /\ esTimer' = esTimer
                        /\ MainFinish
           ELSE UNCHANGED <<enrichedStargazers, fetchOutcome, es, esTimer, mainVars>>
        /\ UNCHANGED <<filtered, i, netlog, gsVars>>

(***************************************************************************)
(* getStargazers                                                           *)
(***************************************************************************)
\* allStargazers.push(...stargazers)
Accumulate_Prepend(all, stargazers) == stargazers \o all

Accumulate(all, stargazers) == all \o stargazers

\* the limit test and allStargazers.slice(0, limit)
LimitReached_Strict(limit, all) == limit # NoLimit /\ Len(all) > limit

LimitReached(limit, all) == limit # NoLimit /\ Len(all) >= limit

Trim(all, limit) == IF Len(all) > limit THEN SubSeq(all, 1, limit) ELSE all

\* catch (error) { log(...); throw error; }
Rethrow_Swallow(error) == NoError

Rethrow(error) == error

RequestPage(p) ==
    /\ pageReq' = Issue(PageUrl(p))
    /\ netlog' = Append(netlog, LogEntry(PageUrl(p), 1))

\* await makeRequest(url) resolved with response.data = data
PageResolved(data, settled) ==
    /\ received' = Append(received, data)
    /\ pageReq' = settled
    /\ thrown' = thrown
    /\ IF Len(data) = 0
       THEN /\ gs' = "returned"
            /\ UNCHANGED <<page, allStargazers, gsTimer>>
            /\ MainAfterFetch(allStargazers)
       ELSE LET acc == Accumulate(allStargazers, FlattenAll(data))
            IN  IF LimitReached(options.limit, acc)
                THEN /\ gs' = "returned"
                     /\ allStargazers' = Trim(acc, options.limit)
                     /\ UNCHANGED <<page, gsTimer>>
                     /\ MainAfterFetch(Trim(acc, options.limit))
                ELSE /\ gs' = "sleep"
                     /\ allStargazers' = acc
                     /\ page' = page + 1
                     /\ gsTimer' = clock' + PageDelay
                     /\ UNCHANGED <<esVars, mainVars, netlog>>

\* await makeRequest(url) rejected: getStargazers rethrows, main() exits
PageRejected_ReturnsPartial(error, settled) ==
    /\ thrown' = Rethrow(error)
    /\ gs' = "thrown"
    /\ pageReq' = settled
    /\ UNCHANGED <<page, allStargazers, gsTimer, received>>
    /\ MainAfterFetch(allStargazers)

PageRejected(error, settled) ==
    /\ thrown' = Rethrow(error)
    /\ gs' = "thrown"
    /\ pageReq' = settled
    /\ pc' = "exit"
    /\ exitCode' = 1
    /\ UNCHANGED <<page, allStargazers, gsTimer, received, files, esVars, netlog>>

(***************************************************************************)
(* Actions                                                                 *)
(***************************************************************************)
IsQuota(res) == res.statusCode = 403 /\ res.headers.remaining = "0"

\* every answer the server may give to url now
FaultResponses(now) ==
    BadJsonResponses(now) \cup ForbiddenResponses(now) \cup OtherStatusResponses(now)

Responses(url) ==
    OkResponses(url, stars, clock)
        \cup (IF faults < MaxFaults THEN FaultResponses(clock) ELSE {})
        \cup (IF rateLimited < MaxRateLimited THEN QuotaResponses(clock) ELSE {})

\* the server's counters after it answered with res
Answered(res) ==
    /\ rateLimited' = IF IsQuota(res) THEN rateLimited + 1 ELSE rateLimited
    /\ faults' = IF res \in FaultResponses(clock) THEN faults + 1 ELSE faults

\* main() calls getStargazers(options.limit), which requests page 1
StartFetch ==
    /\ pc' = "fetching"
    /\ gs' = "await"
    /\ RequestPage(page)

MainStart ==
    /\ pc = "start"
    /\ StartFetch
    /\ UNCHANGED <<envVars, exitCode, files, serverVars, clock, esVars,
                   page, allStargazers, gsTimer, thrown, received>>

\* res.on('end') of the page request
PageResponse ==
    /\ gs = "await"
    /\ pageReq.st = "inflight"
    /\ \E res \in Responses(pageReq.url) :
        /\ clock' = clock + Latency
        /\ Answered(res)
        /\ CASE HandleEnd(res).kind = "resolve" ->
                    PageResolved(res.body.json, Resolve(pageReq, res, clock'))
             [] HandleEnd(res).kind = "reject" ->
                    PageRejected(HandleEnd(res).error,
                                 Reject(pageReq, res, clock', HandleEnd(res).error))
             [] HandleEnd(res).kind = "retry" ->
                    /\ pageReq' = Waiting(pageReq, res, clock')
                    /\ UNCHANGED <<page, allStargazers, gs, gsTimer, thrown,
                                   received, esVars, mainVars, netlog>>
    /\ UNCHANGED <<envVars, stars, mutations>>

\* req.on('error') of the page request
PageError ==
    /\ gs = "await"
    /\ pageReq.st = "inflight"
    /\ clock' = clock + Latency
    /\ faults < MaxFaults
    /\ faults' = faults + 1
    /\ PageRejected(TransportError, Fail(pageReq, clock', TransportError))
    /\ UNCHANGED <<envVars, stars, mutations, rateLimited>>

\* the setTimeout callback of the rate-limit branch: makeRequest(url, options)
PageRetry ==
    /\ pageReq.st = "waiting"
    /\ clock' = Max(clock, pageReq.fireAt)
    /\ pageReq' = Reissue(pageReq)
    /\ netlog' = Append(netlog, LogEntry(pageReq.url, pageReq.attempt + 1))
    /\ UNCHANGED <<envVars, mainVars, serverVars, esVars,
                   page, allStargazers, gs, gsTimer, thrown, received>>

\* the inter-page delay is over: next iteration of the while loop
PageDelayDone ==
    /\ gs = "sleep"
    /\ clock' = Max(clock, gsTimer)
    /\ gs' = "await"
    /\ RequestPage(page)
    /\ UNCHANGED <<envVars, mainVars, serverVars, esVars,
                   page, allStargazers, gsTimer, thrown, received>>

\* res.on('end') of the k-th profile request of the batch
UserResponse(k) ==
    /\ es = "batch"
    /\ userReqs[k].st = "inflight"
    /\ \E res \in Responses(userReqs[k].url) :
        /\ clock' = clock + Latency
        /\ Answered(res)
        /\ CASE HandleEnd(res).kind = "resolve" ->
                    UserSettled(k, TRUE, res.body.json,
                                Resolve(userReqs[k], res, clock'))
             [] HandleEnd(res).kind = "reject" ->
                    UserSettled(k, FALSE, nullInfo,
                                Reject(userReqs[k], res, clock', HandleEnd(res).error))
             [] HandleEnd(res).kind = "retry" ->
                    /\ userReqs' = [userReqs EXCEPT ![k] = Waiting(@, res, clock')]
                    /\ UNCHANGED <<filtered, i, enrichedStargazers, processedCount,
                                   es, esTimer, batchResults, fetchOutcome,
                                   gsVars, mainVars, netlog>>
    /\ UNCHANGED <<envVars, stars, mutations>>

\* req.on('error') of the k-th profile request of the batch
UserError(k) ==
    /\ es = "batch"
    /\ userReqs[k].st = "inflight"
    /\ clock' = clock + Latency
    /\ faults < MaxFaults
    /\ faults' = faults + 1
    /\ UserSettled(k, FALSE, nullInfo, Fail(userReqs[k], clock', TransportError))
    /\ UNCHANGED <<envVars, stars, mutations, rateLimited>>

\* the rate-limit timer of the k-th profile request fires
UserRetry(k) ==
    /\ userReqs[k].st = "waiting"
    /\ clock' = Max(clock, userReqs[k].fireAt)
    /\ userReqs' = [userReqs EXCEPT ![k] = Reissue(@)]
    /\ netlog' = Append(netlog, LogEntry(userReqs[k].url, userReqs[k].attempt + 1))
    /\ UNCHANGED <<envVars, mainVars, serverVars, gsVars, filtered, i,
                   enrichedStargazers, processedCount, es, esTimer,
                   batchResults, fetchOutcome>>

\* the inter-batch delay is over: i += batchSize and the next batch starts
BatchDelayDone_NoWait ==
    /\ es = "sleep"
    /\ clock' = clock
    /\ i' = i + batchSize
    /\ es' = "batch"
    /\ StartBatch(filtered, i + batchSize)
    /\ UNCHANGED <<envVars, mainVars, serverVars, gsVars, filtered,
                   enrichedStargazers, processedCount, esTimer, fetchOutcome>>

BatchDelayDone ==
    /\ es = "sleep"
    /\ clock' = Max(clock, esTimer)
    /\ i' = i + batchSize
    /\ es' = "batch"
    /\ StartBatch(filtered, i + batchSize)
    /\ UNCHANGED <<envVars, mainVars, serverVars, gsVars, filtered,
                   enrichedStargazers, processedCount, esTimer, fetchOutcome>>

\* a user removes the star while a page request is on the wire
Unstar(k) ==
    /\ pc = "fetching"
    /\ pageReq.st = "inflight"
    /\ mutations < MaxMutations
    /\ mutations' = mutations + 1
    /\ stars' = Remove(stars, k)
    /\ UNCHANGED <<envVars, mainVars, rateLimited, faults, clock, netlog, gsVars, esVars>>

\* a user removes the star and stars again: the item moves to the end
Restar(k) ==
    /\ pc = "fetching"
    /\ pageReq.st = "inflight"
    /\ mutations < MaxMutations
    /\ mutations' = mutations + 1
    /\ stars' = Append(Remove(stars, k),
                       [stars[k] EXCEPT !.starred_at = stars[Len(stars)].starred_at + 10])
    /\ UNCHANGED <<envVars, mainVars, rateLimited, faults, clock, netlog, gsVars, esVars>>

Next ==
    \/ MainStart
    \/ PageResponse
    \/ PageError
    \/ PageRetry
    \/ PageDelayDone
    \/ \E k \in 1..Len(userReqs) : UserResponse(k)
    \/ \E k \in 1..Len(userReqs) : UserError(k)
    \/ \E k \in 1..Len(userReqs) : UserRetry(k)
    \/ BatchDelayDone
    \/ \E k \in 1..Len(stars) : Unstar(k)
    \/ \E k \in 1..Len(stars) : Restar(k)

Spec == Init /\ [][Next]_vars

(***************************************************************************)
(* The filter/sort stage on its own: main() line 523 applied to what       *)
(* getStargazers returned, for every option combination the argument       *)
(* parser lets through, every local zone and both hour cycles.             *)
(***************************************************************************)
TheDate == "2025-02-26"

\* star instants around TheDate, as offsets in seconds from its midnight UTC
StarOffsets ==
    { -(4 * 3600),                 \* the day before 20:00 UTC, 05:00 in Tokyo
      0,                           \* 00:00:00 UTC
      9 * 3600,                    \* 09:00:00 UTC, 04:00 in New York
      17 * 3600,                   \* 17:00:00 UTC
      18 * 3600 + 30 * 60 + 15,    \* 18:30:15 UTC
      24 * 3600 }                  \* 00:00:00 UTC of the next day

StarInstants == {DateOf(TheDate) + d : d \in StarOffsets}

\* what getStargazers can return: the k-th record belongs to the k-th user
StargazerLists ==
    UNION {[1..n -> StarInstants] : n \in 0..MaxRecords}

RecordsAt(times) == [k \in 1..Len(times) |-> Flatten(Item(k, times[k]))]

\* --from / --to pairs
TimeWindows ==
    {<<null, null>>, <<"00:00", "08:00">>, <<"9:00", "17:00">>,
     <<"09:30:00", "18:30:15">>, <<"17:00", "9:00">>}

TimezoneValues == {null, "UTC", "Asia/Tokyo", "America/New_York", "Invalid/Zone"}

FilterOptions ==
    {[DefaultOptions EXCEPT !.sort = s] : s \in {"asc", "desc"}}
        \cup {[DefaultOptions EXCEPT !.sort = s, !.date = TheDate,
                                     !.from = w[1], !.to = w[2], !.timezone = z] :
                  s \in {"asc", "desc"}, w \in TimeWindows, z \in TimezoneValues}

\* every variable of the fetch and of the enrichment at rest
AtRest ==
    /\ exitCode = -1
    /\ files = {}
    /\ stars = <<>>
    /\ mutations = 0
    /\ rateLimited = 0
    /\ faults = 0
    /\ clock = StartClock
    /\ netlog = <<>>
    /\ page = 1
    /\ gsTimer = 0
    /\ pageReq = IdleReq
    /\ thrown = NoError
    /\ received = <<>>
    /\ filtered = <<>>
    /\ i = 0
    /\ enrichedStargazers = <<>>
    /\ processedCount = 0
    /\ es = "idle"
    /\ esTimer = 0
    /\ userReqs = <<>>
    /\ batchResults = <<>>
    /\ fetchOutcome = <<>>
    /\ report = NoReport
    /\ stdout = <<>>
    /\ answer = null

FilterInit ==
    /\ AtRest
    /\ NoRaffle
    /\ NoCall
    /\ args = <<>>
    /\ options \in FilterOptions
    /\ localZone \in SupportedZones
    /\ hourCycle \in HourCycles
    /\ pc = "fetched"
    /\ gs = "returned"
    /\ allStargazers \in {RecordsAt(times) : times \in StargazerLists}

\* const filteredAndSortedStargazers = filterAndSortStargazers(stargazers, options)
FilterAndSort ==
    /\ pc = "fetched"
    /\ pc' = "filtered"
    /\ filtered' = filterAndSortStargazers(allStargazers, options, localZone, hourCycle)
    /\ UNCHANGED <<envVars, exitCode, files, serverVars, clock, netlog, gsVars,
                   i, enrichedStargazers, processedCount, es, esTimer, userReqs,
                   batchResults, fetchOutcome>>

FilterNext == FilterAndSort

FilterSpec == FilterInit /\ [][FilterNext]_vars

(***************************************************************************)
(* The command line: the argument loop, the two checks after it, the help  *)
(* branch, and main() up to its first await.                               *)
(***************************************************************************)
\* args[i + 1] past the end of the array
undefinedArg == "<undefined>"

ArgAt(argv, k) == IF k <= Len(argv) THEN argv[k] ELSE undefinedArg

\* a value that is a non-empty string
Truthy(v) == v # undefinedArg /\ v # null /\ v # ""

validOptions ==
    {"--help", "-h", "--sort", "-s", "--date", "-d", "--from", "-f",
     "--to", "-t", "--timezone", "-z", "--limit", "-l"}

\* arg.startsWith('-')
StartsWithDash(arg) == Len(Chars(arg)) > 0 /\ Chars(arg)[1] = "-"

\* /^\d{4}-\d{2}-\d{2}$/
IsDateFormat(cs) ==
    /\ Len(cs) = 10
    /\ cs[5] = "-" /\ cs[8] = "-"
    /\ \A k \in {1, 2, 3, 4, 6, 7, 9, 10} : IsDigit(cs[k])

\* ([0-1]?[0-9]|2[0-3])
IsHourField(cs) ==
    \/ Len(cs) = 1 /\ IsDigit(cs[1])
    \/ Len(cs) = 2 /\ cs[1] \in {"0", "1"} /\ IsDigit(cs[2])
    \/ Len(cs) = 2 /\ cs[1] = "2" /\ cs[2] \in {"0", "1", "2", "3"}

\* [0-5][0-9]
IsSixtyField(cs) ==
    Len(cs) = 2 /\ cs[1] \in {"0", "1", "2", "3", "4", "5"} /\ IsDigit(cs[2])

\* /^([0-1]?[0-9]|2[0-3]):[0-5][0-9](:[0-5][0-9])?$/
IsTimeFormat(cs) ==
    LET parts == Split(cs, ":")
    IN  /\ Len(parts) \in {2, 3}
        /\ IsHourField(parts[1])
        /\ IsSixtyField(parts[2])
        /\ Len(parts) = 3 => IsSixtyField(parts[3])

\* parseInt(args[i + 1]); parseInt(undefined) is NaN
LimitValue(v) == IF v = undefinedArg THEN NaN ELSE parseInt(Chars(v))

\* limitValue && limitValue > 0
LimitAccepted_NonNegative(n) == ~n.nan /\ n.value >= 0

LimitAccepted(n) == ~n.nan /\ n.value # 0 /\ n.value > 0

\* the parser's state: the options object and what was logged
Parsed(opts, out) == [options |-> opts, stdout |-> out]

\* an error message, options.help = true, break
ParseError(p, message) ==
    Parsed([p.options EXCEPT !.help = TRUE], Append(p.stdout, message))

\* the for loop of lines 577-657 from index k on
RECURSIVE ParseLoop(_, _, _)
ParseLoop(argv, k, p) ==
    IF k > Len(argv) THEN p
    ELSE LET arg == argv[k]
             val == ArgAt(argv, k + 1)
             Set(opts) == ParseLoop(argv, k + 2, Parsed(opts, p.stdout))
         IN  IF StartsWithDash(arg) /\ arg \notin validOptions
                 THEN ParseError(p, "Unknown option")
             ELSE IF arg \in {"--help", "-h"}
                 THEN ParseLoop(argv, k + 1,
                                Parsed([p.options EXCEPT !.help = TRUE], p.stdout))
             ELSE IF arg \in {"--sort", "-s"}
                 THEN IF val \in {"asc", "desc"}
                      THEN Set([p.options EXCEPT !.sort = val])
                      ELSE ParseError(p, "Invalid sort value")
             ELSE IF arg \in {"--date", "-d"}
                 THEN IF Truthy(val) /\ IsDateFormat(Chars(val))
                      THEN Set([p.options EXCEPT !.date = val])
                      ELSE ParseError(p, "Invalid date format")
             ELSE IF arg \in {"--from", "-f"}
                 THEN IF Truthy(val) /\ IsTimeFormat(Chars(val))
                      THEN Set([p.options EXCEPT !.from = val])
                      ELSE ParseError(p, "Invalid from time")
             ELSE IF arg \in {"--to", "-t"}
                 THEN IF Truthy(val) /\ IsTimeFormat(Chars(val))
                      THEN Set([p.options EXCEPT !.to = val])
                      ELSE ParseError(p, "Invalid to time")
             ELSE IF arg \in {"--timezone", "-z"}
                 THEN IF Truthy(val)
                      THEN Set([p.options EXCEPT !.timezone = val])
                      ELSE ParseError(p, "Timezone value is required")
             ELSE IF arg \in {"--limit", "-l"}
                 THEN IF LimitAccepted(LimitValue(val))
                      THEN Set([p.options EXCEPT !.limit = LimitValue(val).value])
                      ELSE ParseError(p, "Invalid limit value")
             ELSE ParseLoop(argv, k + 1, p)

\* (options.from || options.to) && !options.date
RequireDate(p) ==
    IF (p.options.from # null \/ p.options.to # null) /\ p.options.date = null
    THEN ParseError(p, "--from and --to options can only be used with --date option")
    ELSE p

\* (options.from && !options.to) || (!options.from && options.to)
RequireBoth_Skipped(p) == p

RequireBoth(p) ==
    IF (p.options.from # null /\ p.options.to = null)
           \/ (p.options.from = null /\ p.options.to # null)
    THEN ParseError(p, "--from and --to must be used together as a time range")
    ELSE p

\* lines 559-671: the options object and the log when the help test is reached
ParseArgs(argv) ==
    RequireBoth(RequireDate(ParseLoop(argv, 1, Parsed(DefaultOptions, <<>>))))

\* status the help branch passes to process.exit
HelpExitCode == 0

Usage == "Usage: node github-stargazers.js [options]"

\* answer.toLowerCase()
ToLower(cs) ==
    [k \in 1..Len(cs) |->
        CASE cs[k] = "Y" -> "y"
          [] cs[k] = "E" -> "e"
          [] cs[k] = "S" -> "s"
          [] cs[k] = "N" -> "n"
          [] OTHER -> cs[k]]

\* what confirmInvalidTimezone resolves with
Proceed_Always(typed) == TRUE

Proceed(typed) == ToLower(Chars(typed)) \in {Chars("y"), Chars("yes")}

\* what the user may type at the prompt
Answers == {"y", "Y", "yes", "YES", "n", ""}

\* one option with its value, a value missing, or a stray word
Segments ==
    { <<"--help">>, <<"--verbose">>, <<"extra">>,
      <<"--sort", "asc">>, <<"-s", "up">>,
      <<"--date", TheDate>>, <<"--date", "26/02/2025">>,
      <<"--from", "9:00">>, <<"--from", "25:00">>,
      <<"--to", "18:30:15">>, <<"--to">>,
      <<"--timezone", "UTC">>, <<"--timezone", "Invalid/Zone">>, <<"--timezone">>,
      <<"--limit", "2">>, <<"-l", "0">>, <<"--limit", "-1">>,
      <<"--limit", "abc">>, <<"--limit">> }

RECURSIVE Concat(_)
Concat(ss) == IF Len(ss) = 0 THEN <<>> ELSE ss[1] \o Concat(Tail(ss))

ArgLists == {Concat(ss) : ss \in UNION {[1..n -> Segments] : n \in 0..MaxArgs}}

CliInit ==
    /\ AtRest
    /\ NoRaffle
    /\ NoCall
    /\ args \in ArgLists
    /\ options = DefaultOptions
    /\ localZone = "UTC"
    /\ hourCycle = "h23"
    /\ pc = "argv"
    /\ gs = "idle"
    /\ allStargazers = <<>>

\* node github-stargazers.js <args>: the script's top level, then main()
\* until it awaits the prompt or the first page
Startup ==
    /\ pc = "argv"
    /\ LET p == ParseArgs(args)
       IN  /\ options' = p.options
           /\ IF p.options.help
              THEN /\ stdout' = Append(p.stdout, Usage)
                   /\ pc' = "exit"
                   /\ exitCode' = HelpExitCode
                   /\ UNCHANGED <<gs, pageReq, netlog>>
              ELSE /\ stdout' = p.stdout
                   /\ exitCode' = exitCode
                   /\ IF p.options.timezone # null
                            /\ ~validateTimezone(p.options.timezone)
                      THEN /\ pc' = "confirm"
                           /\ UNCHANGED <<gs, pageReq, netlog>>
                      ELSE StartFetch
    /\ UNCHANGED <<args, localZone, hourCycle, report, answer, raffleVars, callVars, files,
                   serverVars, clock, esVars, page, allStargazers, gsTimer,
                   thrown, received>>

\* the rl.question callback, and main() after the prompt
AnswerPrompt ==
    /\ pc = "confirm"
    /\ \E typed \in Answers :
           /\ answer' = typed
           /\ IF Proceed(typed)
              THEN /\ StartFetch
                   /\ exitCode' = exitCode
              ELSE /\ pc' = "exit"
                   /\ exitCode' = 1
                   /\ UNCHANGED <<gs, pageReq, netlog>>
    /\ UNCHANGED <<options, args, localZone, hourCycle, report, stdout,
                   raffleVars, callVars, files, serverVars, clock, esVars, page,
                   allStargazers, gsTimer, thrown, received>>

CliNext == Startup \/ AnswerPrompt

CliSpec == CliInit /\ [][CliNext]_vars

(***************************************************************************)
(* Properties of the filter/sort stage                                     *)
(***************************************************************************)
\* index of record r in the list getStargazers returned
InputIndex(r) == CHOOSE k \in 1..Len(allStargazers) : allStargazers[k] = r

Kept(k) == \E j \in 1..Len(filtered) : filtered[j] = allStargazers[k]

\* C11: the output of filterAndSortStargazers is a sub-multiset of its input
\* (every output record is an input record, none twice), is ordered by
\* starred_at ascending for sort = asc and descending otherwise, and records
\* with equal starred_at keep their relative input order
C11_SubsetSortedStable ==
    pc = "filtered" =>
        /\ \A j \in 1..Len(filtered) :
               \E k \in 1..Len(allStargazers) : allStargazers[k] = filtered[j]
        /\ \A a, b \in 1..Len(filtered) : a # b => filtered[a] # filtered[b]
        /\ \A a, b \in 1..Len(filtered) :
               a < b =>
                   /\ options.sort = "asc" =>
                          filtered[a].starred_at <= filtered[b].starred_at
                   /\ options.sort # "asc" =>
                          filtered[a].starred_at >= filtered[b].starred_at
                   /\ filtered[a].starred_at = filtered[b].starred_at =>
                          InputIndex(filtered[a]) < InputIndex(filtered[b])

\* a date and time-window filter dropped one record of three, and the two
\* records kept share their starred_at
C11_Witness ==
    /\ pc = "filtered"
    /\ options.from # null
    /\ Len(filtered) = 2
    /\ Len(allStargazers) = 3
    /\ filtered[1].starred_at = filtered[2].starred_at

\* midnight of calendar date D on the wall clock of zone, as an instant
MidnightOf(date, zone) == DateOf(date) - ZoneOffset(zone)

\* C12: with a date filter and no time window a record is kept iff its
\* instant lies in [00:00:00 of D, 00:00:00 of the next day) taken in the
\* machine's local zone, whatever the zone's UTC offset
C12_DateFilterLocalDay ==
    (pc = "filtered" /\ options.date # null /\ options.from = null
                     /\ options.to = null) =>
        \A k \in 1..Len(allStargazers) :
            Kept(k) <=>
                /\ MidnightOf(options.date, localZone) <= allStargazers[k].starred_at
                /\ allStargazers[k].starred_at
                       < MidnightOf(options.date, localZone) + Day

\* C13: with --date, --from, --to and a valid --timezone Z the records kept
\* are exactly those whose instant, on the wall clock of Z, falls on date D
\* with a time of day in [F, T], whatever the local zone is
C13_WindowInTargetZone ==
    (pc = "filtered" /\ options.date # null /\ options.from # null
         /\ options.to # null /\ options.timezone \in SupportedZones) =>
        \A k \in 1..Len(allStargazers) :
            LET t == allStargazers[k].starred_at
            IN  Kept(k) <=>
                    /\ MidnightOf(options.date, options.timezone) <= t
                    /\ t < MidnightOf(options.date, options.timezone) + Day
                    /\ parseTime(options.from) <= WallSeconds(t, options.timezone)
                    /\ WallSeconds(t, options.timezone) <= parseTime(options.to)

\* the zone the time window is taken in
TargetZone == IF validateTimezone(options.timezone) THEN options.timezone
              ELSE localZone

\* C14: a record that passed the date filter and whose time of day in the
\* target zone equals fromTime exactly, or toTime exactly, is kept
C14_WindowInclusive ==
    (pc = "filtered" /\ options.date # null /\ options.from # null
                     /\ options.to # null) =>
        \A k \in 1..Len(allStargazers) :
            LET t == allStargazers[k].starred_at
            IN  (/\ OnDate(t, options.date, localZone)
                 /\ WallSeconds(t, TargetZone) \in
                        {parseTime(options.from), parseTime(options.to)})
                    => Kept(k)

(***************************************************************************)
(* Properties of the command line                                          *)
(***************************************************************************)
\* y or yes, in any letter case
Affirmative == {"y", "Y", "yes", "YES"}

\* C15: when --timezone names a zone the runtime does not support and the
\* user answers the prompt with anything other than y or yes, the process
\* exits with a non-zero status and no HTTP request was issued during the run
C15_DeclinedTimezoneExits ==
    (answer # null /\ answer \notin Affirmative) =>
        /\ ~validateTimezone(options.timezone)
        /\ pc = "exit"
        /\ exitCode > 0
        /\ netlog = <<>>
        /\ gs = "idle"

\* --date and an unsupported --timezone were given and the user typed n
C15_Witness ==
    /\ options.timezone = "Invalid/Zone"
    /\ options.date # null
    /\ answer = "n"
    /\ pc = "exit"
    /\ exitCode = 1

\* C16: every command-line validation failure prints the usage message and
\* terminates the process with a non-zero exit status
C16_ValidationFailureExitsNonZero ==
    (pc # "argv" /\ stdout # <<>> /\ stdout[1] # Usage) =>
        /\ stdout[Len(stdout)] = Usage
        /\ pc = "exit"
        /\ exitCode # 0

\* options that take a value
TakesValue(arg) ==
    arg \in {"--sort", "-s", "--date", "-d", "--from", "-f", "--to", "-t",
             "--timezone", "-z", "--limit", "-l"}

\* the positions of argv that hold an option or a stray word, not the value
\* of the option before them
RECURSIVE OptionPositions(_, _)
OptionPositions(argv, k) ==
    IF k > Len(argv) THEN {}
    ELSE {k} \cup OptionPositions(argv, IF TakesValue(argv[k]) THEN k + 2 ELSE k + 1)

\* the argument list gives --limit a value of 0 or a negative number
HasNonPositiveLimit ==
    \E k \in OptionPositions(args, 1) :
        /\ args[k] \in {"--limit", "-l"}
        /\ ArgAt(args, k + 1) \in {"0", "-1"}

C18_TimeWindowNeedsDate ==
    gs # "idle" =>
        /\ (options.from # null <=> options.to # null)
        /\ ((options.from # null \/ options.to # null) => options.date # null)

\* the fetch started with --date, --from and --to
C18_Witness ==
    /\ pc = "fetching"
    /\ Len(netlog) = 1
    /\ options.from # null
    /\ options.to # null
    /\ options.date # null

(***************************************************************************)
(* generateStargazersReport on its own: the function applied to every      *)
(* sequence of enriched records that is in ascending or in descending      *)
(* starred_at order.                                                       *)
(***************************************************************************)
Reverse(s) == [k \in 1..Len(s) |-> s[Len(s) + 1 - k]]

\* the fields the recent / oldest lists keep of a record
Brief(s) == [login |-> s.login, starred_at |-> s.starred_at]

\* stargazers.slice(0, n) and stargazers.slice(-n)
First(s, n) == SubSeq(s, 1, Min(n, Len(s)))
Last(s, n) == SubSeq(s, Max(1, Len(s) - n + 1), Len(s))

generateStargazersReport_TrustsOrder(stargazers) ==
    [total_stargazers |-> Len(stargazers),
     recent_stargazers |->
         [k \in 1..Min(ReportListSize, Len(stargazers)) |->
             Brief(First(stargazers, ReportListSize)[k])],
     oldest_stargazers |->
         [k \in 1..Min(ReportListSize, Len(stargazers)) |->
             Brief(Reverse(Last(stargazers, ReportListSize))[k])]]

generateStargazersReport(stargazers) ==
    LET sortedByDate == SortBy(stargazers, "desc")
        recent == First(sortedByDate, ReportListSize)
        oldest == Reverse(Last(sortedByDate, ReportListSize))
    IN  [total_stargazers |-> Len(stargazers),
         recent_stargazers |-> [k \in 1..Len(recent) |-> Brief(recent[k])],
         oldest_stargazers |-> [k \in 1..Len(oldest) |-> Brief(oldest[k])]]

IsAscending(s) ==
    \A a, b \in 1..Len(s) : a < b => s[a].starred_at <= s[b].starred_at

IsDescending(s) ==
    \A a, b \in 1..Len(s) : a < b => s[a].starred_at >= s[b].starred_at

\* every order in which the records of s can arrive
Arrangements(s) ==
    {[k \in 1..Len(s) |-> s[p[k]]] :
        p \in {q \in [1..Len(s) -> 1..Len(s)] :
                  \A a, b \in 1..Len(s) : a # b => q[a] # q[b]}}

ReportInstants ==
    {DateOf(TheDate), DateOf(TheDate) + 9 * 3600, DateOf(TheDate) + 17 * 3600}

\* enriched records of the first n users
EnrichedAt(times) ==
    [k \in 1..Len(times) |->
        Spread(Flatten(Item(k, times[k])), Profile(AllLogins[k]))]

ReportInputs ==
    {s \in UNION {Arrangements(EnrichedAt(times)) :
                     times \in UNION {[1..n -> ReportInstants] : n \in 0..MaxReported}} :
        IsAscending(s) \/ IsDescending(s)}

ReportInit ==
    /\ exitCode = -1
    /\ files = {}
    /\ stars = <<>>
    /\ mutations = 0
    /\ rateLimited = 0
    /\ faults = 0
    /\ clock = StartClock
    /\ netlog = <<>>
    /\ page = 1
    /\ gsTimer = 0
    /\ pageReq = IdleReq
    /\ thrown = NoError
    /\ received = <<>>
    /\ filtered = <<>>
    /\ i = 0
    /\ processedCount = 0
    /\ esTimer = 0
    /\ userReqs = <<>>
    /\ batchResults = <<>>
    /\ fetchOutcome = <<>>
    /\ report = NoReport
    /\ stdout = <<>>
    /\ answer = null
    /\ NoRaffle
    /\ NoCall
    /\ args = <<>>
    /\ options = DefaultOptions
    /\ localZone = "UTC"
    /\ hourCycle = "h23"
    /\ allStargazers = <<>>
    /\ gs = "returned"
    /\ es = "returned"
    /\ pc = "enriched"
    /\ enrichedStargazers \in ReportInputs

\* const report = generateStargazersReport(enrichedStargazers)
GenerateReport ==
    /\ pc = "enriched"
    /\ pc' = "reported"
    /\ report' = generateStargazersReport(enrichedStargazers)
    /\ UNCHANGED <<options, args, localZone, hourCycle, stdout, answer,
                   raffleVars, callVars, exitCode, files, serverVars, clock, netlog, gsVars,
                   esVars>>

ReportNext == GenerateReport

ReportSpec == ReportInit /\ [][ReportNext]_vars

(***************************************************************************)
(* Properties of main() and of the report                                  *)
(***************************************************************************)
\* C19: if getStargazers throws, main issues no per-user profile request,
\* writes none of the output files and exits with status 1
C19_ThrowAbortsRun ==
    gs = "thrown" =>
        /\ pc = "exit"
        /\ exitCode = 1
        /\ files = {}
        /\ userReqs = <<>>
        /\ \A k \in 1..Len(netlog) : netlog[k].url.kind = "page"

\* a page failed after a full page had been accumulated
C19_Witness ==
    /\ gs = "thrown"
    /\ Len(allStargazers) >= PageLen
    /\ exitCode = 1
    /\ Len(netlog) >= 2

\* the recent and the oldest list of a report
Lists(r) == <<r.recent_stargazers, r.oldest_stargazers>>

\* q lists records with equal starred_at in the relative order s lists them
SameTieOrder(q, s) ==
    \A a, b \in 1..Len(q) :
        (a < b /\ q[a].starred_at = q[b].starred_at) =>
            \E c, d \in 1..Len(s) : c < d /\ s[c] = q[a] /\ s[d] = q[b]

\* the same records arriving in ascending or descending order
SortedArrangements(s) ==
    {q \in Arrangements(s) : IsAscending(q) \/ IsDescending(q)}

NameEntry(name) == [type |-> "string", name |-> name, date |-> ""]
WinnerEntry(name, date) == [type |-> "object", name |-> name, date |-> date]
UndefinedEntry == [type |-> "undefined", name |-> "", date |-> ""]

\* the lines of the participants file
allParticipants == SubSeq(AllLogins, 1, MaxParticipants)

\* formatReadableDate() during the n-th run
DateStamps == <<"run 1", "run 2", "run 3", "run 4", "run 5">>

\* data.winners || []
loadFullWinners(file) == file

\* the winners array saveWinners writes
saveWinners(newWinnerName, file, currentDate) ==
    loadFullWinners(file) \o <<WinnerEntry(newWinnerName, currentDate)>>

\* the winners array resetWinners writes
resetWinners == <<>>

\* winner => winner.name
NameField(entry) ==
    IF entry.type = "object" THEN NameEntry(entry.name) ELSE UndefinedEntry

\* the names loadWinners returns: the format is decided on winners[0]
loadWinners(file) ==
    IF Len(file) > 0 /\ file[1].type = "object" /\ file[1].name # ""
    THEN [k \in 1..Len(file) |-> NameField(file[k])]
    ELSE file

\* previousWinners.includes(participant)
Includes(list, participant) ==
    \E k \in 1..Len(list) : list[k] = NameEntry(participant)

\* allParticipants.filter(participant => !previousWinners.includes(participant))
remainingParticipants(previousWinners) ==
    LET Eligible(participant) == ~Includes(previousWinners, participant)
    IN  SelectSeq(allParticipants, Eligible)

\* sequences of distinct participants, at most n long
DistinctNames(n) ==
    {s \in UNION {[1..m -> 1..MaxParticipants] : m \in 0..n} :
        \A a, b \in 1..Len(s) : a # b => s[a] # s[b]}

\* raffle-winners.json as earlier versions left it: plain names, or
\* {name, date} objects
InitialWinnersFiles ==
    {[k \in 1..Len(s) |-> NameEntry(allParticipants[s[k]])] :
        s \in DistinctNames(MaxParticipants - 1)}
      \cup {[k \in 1..Len(s) |-> WinnerEntry(allParticipants[s[k]], "earlier")] :
               s \in DistinctNames(MaxParticipants - 1)}

RaffleInit ==
    /\ AtRest
    /\ args = <<>>
    /\ options = DefaultOptions
    /\ localZone = "UTC"
    /\ hourCycle = "h23"
    /\ pc = "raffle"
    /\ gs = "idle"
    /\ allStargazers = <<>>
    /\ winnersFile \in InitialWinnersFiles
    /\ winner = null
    /\ runs = 0
    /\ NoCall

\* a run that finds participants left: getRandomElement, saveWinners, exit
RaffleDraw ==
    /\ runs < MaxRuns
    /\ LET remaining == remainingParticipants(loadWinners(winnersFile))
       IN  /\ Len(remaining) > 0
           /\ \E k \in 1..Len(remaining) :
                  /\ winner' = remaining[k]
                  /\ winnersFile' =
                         saveWinners(remaining[k], winnersFile, DateStamps[runs + 1])
    /\ runs' = runs + 1
    /\ UNCHANGED <<options, args, localZone, hourCycle, report, stdout, answer,
                   callVars, mainVars, serverVars, clock, netlog, gsVars, esVars>>

\* a run that finds every participant among the winners: the reset prompt
RaffleAllWon ==
    /\ runs < MaxRuns
    /\ Len(remainingParticipants(loadWinners(winnersFile))) = 0
    /\ \E typed \in {"y", "n"} :
           winnersFile' = IF typed = "y" THEN resetWinners ELSE winnersFile
    /\ winner' = null
    /\ runs' = runs + 1
    /\ UNCHANGED <<options, args, localZone, hourCycle, report, stdout, answer,
                   callVars, mainVars, serverVars, clock, netlog, gsVars, esVars>>

RaffleNext == RaffleDraw \/ RaffleAllWon

RaffleSpec == RaffleInit /\ [][RaffleNext]_vars

(***************************************************************************)
(* Properties of raffle-winner.js                                          *)
(***************************************************************************)
\* the names raffle-winners.json records
RecordedNames(file) == {file[k].name : k \in 1..Len(file)}

\* C21: the winner chosen in a run is never a name already recorded in
\* raffle-winners.json at the start of that run, for a file of plain names,
\* of {name, date} objects, or of plain names followed by appended objects
C21_WinnerNotRecordedBefore ==
    winner # null =>
        /\ winnersFile[Len(winnersFile)].name = winner
        /\ winner \notin RecordedNames(SubSeq(winnersFile, 1, Len(winnersFile) - 1))

(***************************************************************************)
(* makeRequest: the request options it hands to https.request, for every   *)
(* options argument and every value of GITHUB_TOKEN.  An object is a       *)
(* function from its keys; {...a, ...b} is Spread(a, b).                   *)
(***************************************************************************)
EmptyObject == <<>>

UserAgent == "Node.js GitHub Stargazers Script"
AcceptStar == "application/vnd.github.v3.star+json"

\* { 'User-Agent': ..., 'Accept': ... }
FixedHeaders == ("User-Agent" :> UserAgent) @@ ("Accept" :> AcceptStar)

\* `token ${githubToken}`
TokenHeader(token) == IF token = "ghp_1" THEN "token ghp_1" ELSE "token"

\* ...options.headers: spreading undefined adds nothing
OptionHeaders(opts) ==
    IF "headers" \in DOMAIN opts THEN opts["headers"] ELSE EmptyObject

\* the headers object after the token test
RequestHeaders(opts, token) ==
    LET headers == Spread(FixedHeaders, OptionHeaders(opts))
    IN  IF Truthy(token)
        THEN Spread(headers, "Authorization" :> TokenHeader(token))
        ELSE headers

\* { headers, ...options }
RequestOptions(opts, token) ==
    Spread("headers" :> RequestHeaders(opts, token), opts)

\* header names a caller may set
HeaderNames == {"User-Agent", "Accept", "Authorization", "X-Trace"}

\* headers objects a caller may pass
CallerHeaders == {[n \in names |-> "custom"] : names \in SUBSET HeaderNames}

\* options arguments: none, other request options, own headers, or both
CallOptions ==
    {EmptyObject, "timeout" :> "5000"}
        \cup {"headers" :> h : h \in CallerHeaders}
        \cup {("headers" :> h) @@ ("timeout" :> "5000") : h \in CallerHeaders}

\* process.env.GITHUB_TOKEN: unset, empty or a token
Tokens == {undefinedArg, "", "ghp_1"}

RequestInit ==
    /\ AtRest
    /\ NoRaffle
    /\ args = <<>>
    /\ options = DefaultOptions
    /\ localZone = "UTC"
    /\ hourCycle = "h23"
    /\ pc = "call"
    /\ gs = "idle"
    /\ allStargazers = <<>>
    /\ callOptions \in CallOptions
    /\ githubToken \in Tokens
    /\ requestOptions = EmptyObject

\* makeRequest(url, callOptions) up to https.request(url, requestOptions, ...)
SendRequest ==
    /\ pc = "call"
    /\ pc' = "sent"
    /\ requestOptions' = RequestOptions(callOptions, githubToken)
    /\ UNCHANGED <<options, args, localZone, hourCycle, report, stdout, answer,
                   raffleVars, callOptions, githubToken, exitCode, files,
                   serverVars, clock, netlog, gsVars, esVars>>

RequestNext == SendRequest

RequestSpec == RequestInit /\ [][RequestNext]_vars

\* the request sent carries header name with value v
Carries(name, v) ==
    /\ "headers" \in DOMAIN requestOptions
    /\ name \in DOMAIN requestOptions["headers"]
    /\ requestOptions["headers"][name] = v

\* C23: for every call of makeRequest, also one whose options hold their own
\* headers, the request sent carries the fixed User-Agent header, the
\* versioned Accept header, and the Authorization header whenever
\* GITHUB_TOKEN is set.
C23_FixedHeadersSent ==
    pc = "sent" =>
        /\ Carries("User-Agent", UserAgent)
        /\ Carries("Accept", AcceptStar)
        /\ Truthy(githubToken) => Carries("Authorization", TokenHeader(githubToken))

(***************************************************************************)
(* Properties of getStargazers                                             *)
(***************************************************************************)
\* the first attempts of the page requests, in the order they were issued
PageRequests == SelectSeq(netlog, LAMBDA e : e.url.kind = "page" /\ e.attempt = 1)

\* every attempt of a page request
PageAttempts == SelectSeq(netlog, LAMBDA e : e.url.kind = "page")

\* the record an API item is expected to become
RecordOf(item) ==
    [login |-> item.user.login, id |-> item.user.id, starred_at |-> item.starred_at]

\* the records of the page bodies 1..n, in page order
RECURSIVE RecordsOf(_, _)
RecordsOf(bodies, n) ==
    IF n = 0 THEN <<>>
    ELSE RecordsOf(bodies, n - 1) \o [k \in 1..Len(bodies[n]) |-> RecordOf(bodies[n][k])]

\* C1: with no limit, getStargazers requests pages 1, 2, 3, ... in increasing
\* order at per_page=100, never requests a page after an empty one, and
\* returns exactly the records of all pages before the first empty page, in
\* page order.
C1_PaginationToExhaustion ==
    options.limit = NoLimit =>
        /\ \A k \in 1..Len(PageRequests) :
               PageRequests[k].url = [kind |-> "page", page |-> k, per_page |-> 100, login |-> ""]
        /\ \A j, k \in 1..Len(PageAttempts) :
               j < k => PageAttempts[j].url.page <= PageAttempts[k].url.page
        /\ gs \in {"await", "sleep"} => \A k \in 1..Len(received) : received[k] # <<>>
        /\ gs = "returned" =>
               /\ Len(received) = Len(PageRequests)
               /\ received[Len(received)] = <<>>
               /\ \A k \in 1..(Len(received) - 1) : received[k] # <<>>
               /\ allStargazers = RecordsOf(received, Len(received) - 1)

\* pages of PageLen, a shorter page and an empty page were fetched
C1_Witness ==
    /\ options.limit = NoLimit
    /\ gs = "returned"
    /\ Len(received) = 3
    /\ Len(received[1]) = PageLen
    /\ Len(received[2]) \in 1..(PageLen - 1)
    /\ Len(allStargazers) = Len(received[1]) + Len(received[2])

\* C2: with a limit L, as soon as the accumulated count is at least L after
\* a page was appended, no further page is requested and the result is
\* exactly the first L accumulated records in page order.
C2_LimitStopsAndTruncates ==
    options.limit # NoLimit =>
        /\ gs \in {"await", "sleep"} =>
               Len(RecordsOf(received, Len(received))) < options.limit
        /\ (gs = "returned" /\ Len(RecordsOf(received, Len(received))) >= options.limit) =>
               /\ Len(PageRequests) = Len(received)
               /\ Len(RecordsOf(received, Len(received) - 1)) < options.limit
               /\ Len(allStargazers) = options.limit
               /\ allStargazers =
                      SubSeq(RecordsOf(received, Len(received)), 1, options.limit)

\* the limit fell inside the second page and the surplus was cut off
C2_Witness ==
    /\ options.limit # NoLimit
    /\ gs = "returned"
    /\ Len(received) = 2
    /\ Len(RecordsOf(received, 2)) > options.limit
    /\ Len(RecordsOf(received, 1)) < options.limit
    /\ Len(allStargazers) = options.limit

\* C3: if a page request rejects, getStargazers throws that same error and
\* returns no list, however many pages had been accumulated; main() receives
\* nothing to filter or enrich.
C3_FailedFetchThrows ==
    /\ pageReq.st = "rejected" =>
           /\ pageReq.error # NoError
           /\ gs = "thrown"
           /\ thrown = pageReq.error
           /\ filtered = <<>>
           /\ es = "idle"
    /\ gs = "thrown" => pageReq.st = "rejected"
    /\ gs = "returned" => pageReq.st = "resolved" /\ thrown = NoError

\* a later page failed after records had been accumulated
C3_Witness ==
    /\ gs = "thrown"
    /\ thrown.type \in {"transport", "parse", "saml", "http"}
    /\ Len(allStargazers) >= PageLen
    /\ page > 1

(***************************************************************************)
(* Properties of makeRequest                                               *)
(***************************************************************************)
\* seconds the handler that saw the quota-exhausted response at req.since
\* has to wait: ceil((resetAt - now) / 1000) + 60
QuotaWait(req) == Ceil(req.res.headers.reset.value * 1000 - req.since, 1000) + 60

C4_Page ==
    /\ (pageReq.st = "inflight" /\ pageReq'.st = "waiting") =>
           /\ pageReq'.res.statusCode = 403
           /\ UNCHANGED <<gs, page, allStargazers, thrown, received, pc, exitCode, netlog>>
    /\ (pageReq.st = "waiting" /\ pageReq'.st = "inflight") =>
           /\ netlog' = Append(netlog,
                  [url |-> [kind |-> "page", page |-> page, per_page |-> 100, login |-> ""],
                   options |-> PageAttempts[Len(PageAttempts)].options,
                   attempt |-> pageReq.attempt + 1])
           /\ pageReq.res.headers.reset.defined =>
                  clock' >= pageReq.since + 1000 * QuotaWait(pageReq)
           /\ UNCHANGED <<gs, page, allStargazers, thrown, received, pc>>
    /\ (pageReq.st = "inflight" /\ pageReq.attempt > 1 /\ pageReq'.st = "resolved") =>
           received' = Append(received, PageSlice(stars, page))
    /\ (pageReq.st = "inflight" /\ pageReq.attempt > 1 /\ pageReq'.st = "rejected") =>
           /\ gs' = "thrown"
           /\ thrown' = pageReq'.error
    /\ gs \in {"await", "sleep"} => page = Len(received) + 1

C4_User(k) ==
    /\ (userReqs[k].st = "inflight" /\ userReqs'[k].st = "waiting") =>
           UNCHANGED <<batchResults, processedCount, enrichedStargazers, es, pc, netlog>>
    /\ (userReqs[k].st = "waiting" /\ userReqs'[k].st = "inflight") =>
           /\ netlog' = Append(netlog,
                  [url |-> [kind |-> "user", page |-> 0, per_page |-> 0,
                            login |-> filtered[i + k].login],
                   options |-> {},
                   attempt |-> userReqs[k].attempt + 1])
           /\ userReqs[k].res.headers.reset.defined =>
                  clock' >= userReqs[k].since + 1000 * QuotaWait(userReqs[k])
           /\ UNCHANGED <<batchResults, processedCount, enrichedStargazers, es, pc>>

\* C4: a 403 with x-ratelimit-remaining "0" is not passed to the caller:
\* nothing of the caller changes when it is seen; the retry is issued no
\* earlier than ceil((resetAt - now)/1000) + 60 seconds later and repeats the
\* URL and options of the request; the caller then gets the outcome of the
\* reissued request, so that page N is delivered exactly once.
C4_QuotaRetryInvisible ==
    [][/\ C4_Page
       /\ \A k \in 1..Len(userReqs) : Len(userReqs') = Len(userReqs) => C4_User(k)]_vars

\* page 2 met a quota-exhausted 403 with the reset 5 seconds ahead, waited
\* 65 seconds, was reissued and delivered
C4_Witness ==
    /\ pageReq.url.page = 2
    /\ pageReq.attempt = 2
    /\ pageReq.st = "resolved"
    /\ pageReq.fireAt = pageReq.since + 65000
    /\ Len(received) = 2
    /\ allStargazers = RecordsOf(received, 2)
    /\ Len(allStargazers) = 2 * PageLen

\* every makeRequest call the state still knows
AllReqs == {pageReq} \cup {userReqs[k] : k \in 1..Len(userReqs)}

\* C5 as stated: every 403 whose body names SAML enforcement rejects with
\* the SAML error and is never reissued, whatever the rate-limit headers.
C5_SamlAlwaysRejects ==
    \A req \in AllReqs :
        (req.res.statusCode = 403 /\ req.res.saml) =>
            req.st = "rejected" /\ req.error.type = "saml"

\* C5 (amended): a 403 whose x-ratelimit-remaining header is not "0" and
\* whose body names SAML enforcement rejects with the SAML error and is
\* never reissued.
C5_SamlRejectsUnlessQuota ==
    /\ \A req \in AllReqs :
           (req.res.statusCode = 403 /\ req.res.saml /\ req.res.headers.remaining # "0") =>
               /\ req.st = "rejected"
               /\ req.error = [type |-> "saml", statusCode |-> 0, detail |-> SAMLMessage]
    /\ (pageReq.res.statusCode = 403 /\ pageReq.res.saml
            /\ pageReq.res.headers.remaining # "0") => thrown.type = "saml"

\* a page request was answered 403 with a SAML body and quota left
C5_Witness ==
    /\ pageReq.res.statusCode = 403
    /\ pageReq.res.saml
    /\ pageReq.res.headers.remaining = "59"
    /\ pageReq.st = "rejected"
    /\ pageReq.attempt = 1
    /\ thrown.type = "saml"

(***************************************************************************)
(* Properties of enrichStargazersData                                      *)
(***************************************************************************)
\* the first attempts of the profile requests, in the order they were issued
UserRequests == SelectSeq(netlog, LAMBDA e : e.url.kind = "user" /\ e.attempt = 1)

\* profile requests issued and not yet settled
Unsettled == Len(UserRequests) - processedCount

\* the record a base record is expected to become when its profile arrives
EnrichedOf(base) ==
    [login |-> base.login, id |-> base.id, starred_at |-> base.starred_at,
     name |-> <<"name of", base.login>>]

\* C6: whatever profile fetches fail, enrichStargazersData does not reject
\* (main() never takes its error exit during enrichment), goes on to the
\* later batches, and returns as many records as it was given, each record
\* whose fetch failed being equal to its base record field for field.
C6_FailuresIsolated ==
    /\ es # "idle" => pc \in {"enriching", "done"} /\ exitCode # 1
    /\ Len(fetchOutcome) = Len(enrichedStargazers)
    /\ es = "batch" => Len(enrichedStargazers) = i
    /\ es = "sleep" => Len(enrichedStargazers) = i + batchSize
    /\ es = "returned" => Len(enrichedStargazers) = Len(filtered)
    /\ \A j \in 1..Len(enrichedStargazers) :
           IF fetchOutcome[j]
           THEN enrichedStargazers[j] = EnrichedOf(filtered[j])
           ELSE /\ enrichedStargazers[j] = filtered[j]
                /\ DOMAIN enrichedStargazers[j] = {"login", "id", "starred_at"}

\* a fetch of the first batch failed and a later batch was still enriched
C6_Witness ==
    /\ es = "returned"
    /\ pc = "done"
    /\ Len(filtered) > batchSize
    /\ ~fetchOutcome[1]
    /\ fetchOutcome[Len(filtered)]
    /\ enrichedStargazers[1] = filtered[1]
    /\ Cardinality({j \in 1..Len(filtered) : ~fetchOutcome[j]}) = 2

\* C7: the i-th output record derives from the i-th input record, whatever
\* the order in which the requests of a batch settle.
C7_EnrichmentKeepsOrder ==
    \A j \in 1..Len(enrichedStargazers) :
        /\ enrichedStargazers[j].login = filtered[j].login
        /\ enrichedStargazers[j].starred_at = filtered[j].starred_at
        /\ enrichedStargazers[j] \in {filtered[j], EnrichedOf(filtered[j])}

\* the first request of a batch was held back by a rate-limit wait and
\* settled after the second one
C7_Witness ==
    /\ es = "returned"
    /\ Len(userReqs) = 2
    /\ userReqs[1].attempt = 2
    /\ userReqs[1].n > userReqs[2].n
    /\ Len(enrichedStargazers) = Len(filtered)
    /\ \A j, k \in 1..Len(filtered) : j # k => filtered[j] # filtered[k]

\* C8: at most batchSize profile requests are unsettled at any moment, and
\* a request of the next batch is issued only when every request issued
\* before has settled; a request waiting for the quota reset is unsettled.
C8_BoundedConcurrency ==
    [][/\ Unsettled' <= batchSize
       /\ Unsettled' =
              Cardinality({k \in 1..Len(userReqs') : userReqs'[k].st \in {"inflight", "waiting"}})
       /\ Len(UserRequests') > Len(UserRequests) =>
              /\ Unsettled = 0
              /\ \A k \in 1..Len(userReqs) : userReqs[k].st \notin {"inflight", "waiting"}]_vars

\* a request of the first batch waits for the quota reset, the rest of the
\* batch has settled, and the second batch has not been started
C8_Witness ==
    /\ es = "batch"
    /\ i = 0
    /\ Len(filtered) > batchSize
    /\ Len(UserRequests) = batchSize
    /\ userReqs[1].st = "waiting"
    /\ \A k \in 2..Len(userReqs) : IsSettled(userReqs[k])

(***************************************************************************)
(* Properties of the result of the run                                     *)
(***************************************************************************)
\* C9 as stated: the list getStargazers returns holds no two records with
\* the same login.
C9_NoDuplicateLogins ==
    gs = "returned" =>
        \A j, k \in 1..Len(allStargazers) :
            j # k => allStargazers[j].login # allStargazers[k].login

\* the L stargazers of the collection with the greatest starred_at
MostRecent(coll, L) ==
    {RecordOf(coll[k]) : k \in {m \in 1..Len(coll) :
        Cardinality({n \in 1..Len(coll) : coll[n].starred_at > coll[m].starred_at}) < L}}

\* C10 as stated: with --limit N and the default sort the run yields the N
\* most recent stargazers whenever the repository has more than N (the
\* collection not changing during the run).
C10_LimitYieldsMostRecent ==
    (/\ pc \in {"enriching", "done"}
     /\ options.limit # NoLimit
     /\ options.sort = "desc"
     /\ mutations = 0
     /\ Len(stars) > options.limit) =>
        {filtered[j] : j \in 1..Len(filtered)} = MostRecent(stars, options.limit)

(***************************************************************************)
(* Properties of makeRequest: attempts and rejections                      *)
(***************************************************************************)
\* attempts after the first that were put on the wire
Reissues == SelectSeq(netlog, LAMBDA e : e.attempt >= 2)

\* makeRequest calls waiting for their retry timer
WaitingReqs ==
    (IF pageReq.st = "waiting" THEN 1 ELSE 0)
        + Cardinality({k \in 1..Len(userReqs) : userReqs[k].st = "waiting"})

\* the last response req saw was a 403 with x-ratelimit-remaining "0"
SawQuota(req) == req.res.statusCode = 403 /\ req.res.headers.remaining = "0"

\* every later attempt answers one quota-exhausted 403, and a call waits for
\* a retry only after such a response
ReissueOnlyAfterQuota ==
    /\ Len(Reissues) + WaitingReqs = rateLimited
    /\ \A req \in AllReqs :
           /\ req.st = "waiting" => SawQuota(req)
           /\ req.attempt >= 2 => req.attempt <= rateLimited + 1

\* a rejected call that received no response at its last attempt, or a 2xx
\* response whose body is not JSON
RejectedWithoutStatus(req) ==
    \/ /\ req.error = TransportError
       /\ req.res = NoResponse \/ SawQuota(req)
    \/ /\ req.error = Err("parse", 0, req.res.data)
       /\ req.res.statusCode >= 200 /\ req.res.statusCode < 300

\* a rejection whose error is "HTTP <status>: <body>"
CarriesStatusAndBody(req) ==
    req.error = Err("http", req.res.statusCode, req.res.data)

\* C22 as stated: a second attempt is issued only after a 403 with
\* x-ratelimit-remaining "0"; a transport error, a 2xx body that is not JSON,
\* a 403 of any other kind and every other non-2xx status reject at that
\* attempt, and every rejection of a non-2xx response carries the status code
\* and the body.
C22_RejectionsCarryStatusAndBody ==
    /\ ReissueOnlyAfterQuota
    /\ \A req \in AllReqs :
           req.st = "rejected" =>
               \/ RejectedWithoutStatus(req)
               \/ /\ req.res.statusCode >= 300
                  /\ ~SawQuota(req)
                  /\ CarriesStatusAndBody(req)

\* C22 (amended): a second attempt is issued only after a 403 with
\* x-ratelimit-remaining "0"; a transport error, a 2xx body that is not JSON,
\* a 403 of any other kind and every other non-2xx status reject at that
\* attempt.  The rejection of a non-2xx response carries the status code and
\* the body, except for a 403 whose body names SAML enforcement: its error
\* carries the message of the body and no status code.
C22_OneAttemptUnlessQuota ==
    /\ ReissueOnlyAfterQuota
    /\ \A req \in AllReqs :
           req.st = "rejected" =>
               \/ RejectedWithoutStatus(req)
               \/ /\ req.res.statusCode >= 300
                  /\ ~SawQuota(req)
                  /\ IF req.res.statusCode = 403 /\ req.res.saml
                     THEN req.error = Err("saml", 0, SAMLMessage)
                     ELSE CarriesStatusAndBody(req)

\* a page request was reissued after a quota-exhausted 403 and its second
\* attempt was answered 500: rejected with the status and the body, two
\* attempts on the wire
C22_Witness ==
    /\ pageReq.st = "rejected"
    /\ pageReq.attempt = 2
    /\ Len(Reissues) = 1
    /\ pageReq.res.statusCode = 500
    /\ pageReq.error = Err("http", 500, OtherMessage)

(***************************************************************************)
(* Properties of enrichStargazersData: frame                               *)
(***************************************************************************)
\* the argument main() handed to enrichStargazersData
EnrichmentInput ==
    filterAndSortStargazers(allStargazers, options, localZone, hourCycle)

\* every field of base is a field of enriched
ContainsFields(enriched, base) == DOMAIN base \subseteq DOMAIN enriched

\* C24: every enriched record contains every field of its base record, and
\* the input of enrichStargazersData (the array and each base record) holds
\* after the call, and at every moment during it, what it held before,
\* whether the profile fetches succeeded or failed.
C24_EnrichmentAddsAndKeepsInput ==
    es # "idle" =>
        /\ filtered = EnrichmentInput
        /\ Len(enrichedStargazers) <= Len(filtered)
        /\ \A j \in 1..Len(enrichedStargazers) :
               /\ ContainsFields(enrichedStargazers[j], filtered[j])
               /\ enrichedStargazers[j].starred_at = filtered[j].starred_at
        /\ \A j \in 1..Len(filtered) :
               DOMAIN filtered[j] = {"login", "id", "starred_at"}

\* enrichStargazersData returned after one profile fetch succeeded and
\* another failed
C24_Witness ==
    /\ es = "returned"
    /\ Len(enrichedStargazers) >= 2
    /\ \E j, k \in 1..Len(fetchOutcome) : fetchOutcome[j] /\ ~fetchOutcome[k]
    /\ filtered = EnrichmentInput

(***************************************************************************)
(* Properties of enrichStargazersData: pacing                              *)
(***************************************************************************)
\* C25: a 2-second pause separates the settling of batch k from the issue of
\* the first request of batch k+1, and no pause follows the last batch: the
\* pause is begun only when records remain, it ends BatchDelay after the
\* batch settled, the next batch is issued no earlier than that, and an
\* input of at most batchSize records sets no timer at all.
C25_PauseBetweenBatches ==
    /\ es = "sleep" =>
           /\ i + batchSize < Len(filtered)
           /\ BatchDone(userReqs)
           /\ Len(enrichedStargazers) = i + batchSize
           /\ esTimer = clock + BatchDelay
    /\ (es = "batch" /\ i > 0) =>
           /\ clock >= esTimer
           /\ Len(enrichedStargazers) = i
    /\ es = "returned" =>
           /\ pc = "done"
           /\ Len(enrichedStargazers) = Len(filtered)
    /\ (es # "idle" /\ Len(filtered) <= batchSize) => esTimer = 0 /\ es # "sleep"

\* the second batch has just been issued, at the moment the pause ended
C25_Witness ==
    /\ es = "batch"
    /\ i = batchSize
    /\ clock = esTimer
    /\ \A k \in 1..Len(userReqs) : userReqs[k].st = "inflight" /\ userReqs[k].attempt = 1

(***************************************************************************)
(* Properties of the filter: unknown time zone, reversed window            *)
(***************************************************************************)
\* a --timezone value the runtime does not know
UnknownZone == "Invalid/Zone"

\* the time of day t falls in the window of the options, on the clock of zone
InWindowOf(t, zone) ==
    /\ options.from # null => parseTime(options.from) <= WallSeconds(t, zone)
    /\ options.to # null => WallSeconds(t, zone) <= parseTime(options.to)

\* C26: an unknown --timezone that the user confirmed with y or yes lets the
\* run go on, and the time-window filter then reads the time of day on the
\* machine's local clock: the result is exactly the result of the same run
\* without --timezone.
C26_UnknownTimezoneIsLocal ==
    /\ \A typed \in {"y", "yes"} : Proceed(typed)
    /\ (pc = "filtered" /\ options.timezone = UnknownZone) =>
           /\ filtered = filterAndSortStargazers(allStargazers,
                             [options EXCEPT !.timezone = null], localZone, hourCycle)
           /\ \A k \in 1..Len(allStargazers) :
                  Kept(k) <=>
                      /\ OnDate(allStargazers[k].starred_at, options.date, localZone)
                      /\ InWindowOf(allStargazers[k].starred_at, localZone)

\* a window was applied with an unknown time zone on a machine in Tokyo, and
\* it kept some records and dropped others that a window in UTC would keep
C26_Witness ==
    /\ pc = "filtered"
    /\ options.timezone = UnknownZone
    /\ options.from # null
    /\ localZone = "Asia/Tokyo"
    /\ Len(filtered) >= 1
    /\ \E k \in 1..Len(allStargazers) :
           /\ ~Kept(k)
           /\ OnDate(allStargazers[k].starred_at, options.date, localZone)
           /\ InWindowOf(allStargazers[k].starred_at, "UTC")

\* the command lines of --date, --from and --to, in any order, whose window
\* begins at 17:00 and ends at 9:00
ReversedWindowArgs ==
    LET seg == << <<"--date", TheDate>>, <<"--from", "17:00">>, <<"--to", "9:00">> >>
    IN  {Concat([k \in 1..3 |-> seg[p[k]]]) :
            p \in {q \in [1..3 -> 1..3] : \A a, b \in 1..3 : a # b => q[a] # q[b]}}

\* the argument parser lets these command lines through
ReversedWindowAccepted ==
    \A argv \in ReversedWindowArgs :
        LET parsed == ParseArgs(argv).options
        IN  ~parsed.help /\ parsed.from = "17:00" /\ parsed.to = "9:00"

\* the options hold a window whose fromTime is later than its toTime
ReversedWindow ==
    /\ options.date # null
    /\ options.from # null
    /\ options.to # null
    /\ parseTime(options.from) > parseTime(options.to)

\* C30: a window whose fromTime is later than its toTime is accepted by the
\* argument parser, and the filter then keeps no record, whatever was
\* fetched, in every local zone: the window does not wrap past midnight and
\* the report counts zero stargazers.
C30_ReversedWindowKeepsNothing ==
    /\ ReversedWindowAccepted
    /\ (pc = "filtered" /\ ReversedWindow) =>
           /\ filtered = <<>>
           /\ generateStargazersReport(filtered).total_stargazers = 0

\* three records were fetched, starred on the day at midnight, at 09:00 and
\* at 17:00 UTC, and the window from 17:00 to 9:00 in UTC kept none of them
C30_Witness ==
    /\ pc = "filtered"
    /\ ReversedWindow
    /\ options.timezone = "UTC"
    /\ localZone = "UTC"
    /\ Len(allStargazers) = 3
    /\ {WallSeconds(allStargazers[k].starred_at, "UTC") : k \in 1..3}
           = {0, 9 * 3600, 17 * 3600}
    /\ \A k \in 1..3 : OnDate(allStargazers[k].starred_at, options.date, localZone)
    /\ filtered = <<>>

(***************************************************************************)
(* The whole run with a date filter: main() from the first page request to *)
(* the files, on a repository whose stars lie around TheDate, with --date  *)
(* and, or not, a time window.                                             *)
(***************************************************************************)
\* starred_at of the repository's stars, oldest first, as offsets from
\* midnight UTC of TheDate: the first is the evening before
PipelineOffsets ==
    << -(4 * 3600), 0, 9 * 3600, 17 * 3600, 18 * 3600 + 30 * 60 + 15,
       23 * 3600, 24 * 3600 >>

PipelineStars(n) == [k \in 1..n |-> Item(k, DateOf(TheDate) + PipelineOffsets[k])]

PipelineOptions ==
    {[DefaultOptions EXCEPT !.sort = s, !.date = TheDate, !.from = w[1], !.to = w[2]] :
        s \in {"asc", "desc"}, w \in {<<null, null>>, <<"9:00", "17:00">>}}

PipelineInit ==
    /\ options \in PipelineOptions
    /\ args = <<>>
    /\ localZone = "UTC"
    /\ hourCycle = "h23"
    /\ report = NoReport
    /\ stdout = <<>>
    /\ answer = null
    /\ NoRaffle
    /\ NoCall
    /\ pc = "start"
    /\ exitCode = -1
    /\ files = {}
    /\ stars = PipelineStars(MaxStars)
    /\ mutations = 0
    /\ rateLimited = 0
    /\ faults = 0
    /\ clock = StartClock
    /\ netlog = <<>>
    /\ page = 1
    /\ allStargazers = <<>>
    /\ gs = "idle"
    /\ gsTimer = 0
    /\ pageReq = IdleReq
    /\ thrown = NoError
    /\ received = <<>>
    /\ filtered = <<>>
    /\ i = 0
    /\ enrichedStargazers = <<>>
    /\ processedCount = 0
    /\ es = "idle"
    /\ esTimer = 0
    /\ userReqs = <<>>
    /\ batchResults = <<>>
    /\ fetchOutcome = <<>>

PipelineSpec == PipelineInit /\ [][Next]_vars

\* the logins a sequence of records names, in order
LoginsOf(list) == [k \in 1..Len(list) |-> list[k].login]

\* the logins the first attempts of the profile requests name, in issue order
RequestedLogins == [k \in 1..Len(UserRequests) |-> UserRequests[k].url.login]

\* C27: every profile request is issued after the last page request
\* completed, and the first attempts of the profile requests go out once
\* per record of the filtered and sorted sequence, in its order, and for no
\* record the filter removed.
C27_ProfilesAfterPagesPerKeptRecord ==
    /\ \A j, k \in 1..Len(netlog) :
           (j < k /\ netlog[j].url.kind = "user") => netlog[k].url.kind = "user"
    /\ Len(UserRequests) > 0 =>
           /\ gs = "returned"
           /\ pageReq.st = "resolved"
    /\ es \in {"batch", "sleep"} =>
           RequestedLogins =
               SubSeq(LoginsOf(EnrichmentInput), 1, Len(RequestedLogins))
    /\ pc = "done" =>
           LET kept == LoginsOf(EnrichmentInput)
               removed == {allStargazers[k].login : k \in 1..Len(allStargazers)}
                              \ {kept[j] : j \in 1..Len(kept)}
           IN  /\ RequestedLogins = kept
               /\ \A e \in 1..Len(netlog) :
                      netlog[e].url.kind = "user" => netlog[e].url.login \notin removed

\* a run completed in which the filter removed a fetched record and kept
\* more than one batch of records
C27_Witness ==
    /\ pc = "done"
    /\ Len(allStargazers) = MaxStars
    /\ Len(filtered) > batchSize
    /\ Len(filtered) < Len(allStargazers)
    /\ Len(UserRequests) = Len(filtered)

(***************************************************************************)
(* Termination of getStargazers: the run up to the moment getStargazers    *)
(* returns or throws.  The event loop runs every callback that is due: a   *)
(* request on the wire is answered (the API answers every request), the    *)
(* retry timer and the inter-page timer fire.  The server answers with a   *)
(* quota-exhausted 403 at most MaxRateLimited times and the repository is  *)
(* finite, so an empty page or the limit is reached.                       *)
(***************************************************************************)
FetchNext ==
    \/ MainStart
    \/ PageResponse
    \/ PageError
    \/ PageRetry
    \/ PageDelayDone
    \/ \E k \in 1..Len(stars) : Unstar(k)
    \/ \E k \in 1..Len(stars) : Restar(k)

\* ENABLED <<PageResponse>>_vars: a page request is on the wire (every
\* response moves the clock)
PageResponseEnabled == gs = "await" /\ pageReq.st = "inflight"

\* WF_vars(PageResponse) with ENABLED <<PageResponse>>_vars written as the
\* guard of the action
AnswersEveryRequest ==
    \/ []<>(~PageResponseEnabled)
    \/ []<><<PageResponse>>_vars

FairSpec ==
    /\ Init
    /\ [][FetchNext]_vars
    /\ AnswersEveryRequest
    /\ WF_vars(PageRetry)
    /\ WF_vars(PageDelayDone)

\* C28: every call of getStargazers eventually returns or throws.
C28_GetStargazersTerminates ==
    (gs \in {"await", "sleep"}) ~> (gs \in {"returned", "thrown"})

\* getStargazers returned after a quota wait and more than one page
C28_Witness ==
    /\ gs = "returned"
    /\ rateLimited = MaxRateLimited
    /\ Len(PageRequests) >= 3
    /\ Len(PageAttempts) > Len(PageRequests)

(***************************************************************************)
(* Properties of makeRequest: the quota wait                               *)
(***************************************************************************)
\* the instant, in ms, 60 s after the reset the response req saw announces
AfterReset(req) == (req.res.headers.reset.value + RateLimitBuffer) * 1000

\* C29: after a quota-exhausted 403 whose x-ratelimit-reset is a number, the
\* retry is never issued earlier than 60 s after the reset instant, be the
\* reset ahead of the response or behind it: the timer is due no earlier,
\* and the reissued request goes out no earlier.
C29_RetryNotBeforeResetPlusBuffer ==
    \A req \in AllReqs :
        (SawQuota(req) /\ req.res.headers.reset.defined) =>
            /\ req.st = "waiting" =>
                   /\ req.fireAt >= AfterReset(req)
                   /\ req.fireAt > req.since
            /\ (req.st = "inflight" /\ req.attempt >= 2) =>
                   /\ clock >= AfterReset(req)
                   /\ clock > req.since

\* a page request was reissued 1 ms after a quota-exhausted 403 whose reset
\* instant lay more than 60 s in the past
C29_Witness ==
    /\ pageReq.st = "inflight"
    /\ pageReq.attempt = 2
    /\ SawQuota(pageReq)
    /\ pageReq.res.headers.reset.defined
    /\ AfterReset(pageReq) < pageReq.since
    /\ clock = pageReq.since + 1

====
